---- MODULE Spec2Model ----
(***************************************************************************)
(* Verification model of the silhouette-mask pipeline of the portfolio     *)
(* effects: the brightness / inside-test helpers (playlist.js,             *)
(* videomosaic.js, poetry effect, sketch.js) and the VideoPlaylist source  *)
(* state machine (playlist.js).                                            *)
(*                                                                         *)
(* The later sections add the effect switcher (app.js), the drip grid      *)
(* (traildrip), the bento grid (main.js), the finite events of the         *)
(* threshold effect, the particle caps, the ascii trail fade, the spring   *)
(* return and the mosaic packing.                                          *)
(*                                                                         *)
(* The specifications share the module and its variables:                  *)
(*   SpecMask      the pure mask helpers applied to bounded buffers and    *)
(*                 query points                                            *)
(*   Spec          the VideoPlaylist object, its <video> nodes, its        *)
(*                 asynchronous source switches in flight and its owner    *)
(*   SpecThrottle  the demo playlist playing while an effect samples it    *)
(*                 with updateMask                                         *)
(*   SpecApp       boot, switchEffect and the auto-rotation of app.js      *)
(*   SpecGrid      the drips of the trail effect on their occupancy grid   *)
(*   SpecRect      canPlaceRect, placeRect, freeRectById and fits called   *)
(*                 on a small grid                                         *)
(*   SpecTiles     the bento grid under rebuilds and hovers                *)
(*   SpecEnvelope  ripples and cuts of the threshold effect over time      *)
(*   SpecCaps      the capped lists of the threshold and particle effects  *)
(*   SpecFade      the trail fade of the ascii layer on one pixel          *)
(*   SpecSpring    the spring return of a hover point and a mosaic panel   *)
(*                 (SpecSpringLive: with the draw loop running)            *)
(*   SpecGridLive  SpecGrid with frames and the clock advancing            *)
(*   SpecPack      _packNow of the mosaic effect on a small canvas         *)
(***************************************************************************)
EXTENDS Integers, Sequences, FiniteSets, TLC

\* a null mask buffer handed to the helpers
NullBuf == <<>>

(***************************************************************************)
(* Bounds of the model                                                     *)
(***************************************************************************)
MaxW == 2
MaxH == 1

(***************************************************************************)
(* Program constants                                                       *)
(***************************************************************************)
SIL_BRIGHTNESS_THRESHOLD == 190
SKETCH_SIL_BRIGHTNESS_THRESHOLD == 170
ALPHA_MIN == 8
OUTSIDE_LUMA == 255

(***************************************************************************)
(* IEEE-754 binary64 arithmetic, as far as the luma expression needs it.   *)
(* A non-negative double d < 2^10 is held exactly as the integer d * 2^56, *)
(* split in three limbs of 22 bits (little endian): every operand and      *)
(* every exact intermediate result of 0.2126*r + 0.7152*g + 0.0722*b is a  *)
(* multiple of 2^-56.  Each JavaScript operation is the exact operation    *)
(* followed by rounding to 53 significant bits, ties to even.              *)
(***************************************************************************)
LimbBase == 4194304

F64_0_2126 == <<2174328, 3395708, 870>>
F64_0_7152 == <<1664296, 1926024, 2929>>
F64_0_0722 == <<355677, 3066875, 295>>

F64FromInt(n) == <<0, 0, n * 4096>>

F64MulExact(a, k) ==
  LET p0 == a[1] * k
      p1 == a[2] * k + (p0 \div LimbBase)
      p2 == a[3] * k + (p1 \div LimbBase)
  IN  <<p0 % LimbBase, p1 % LimbBase, p2>>

F64AddExact(a, b) ==
  LET s0 == a[1] + b[1]
      s1 == a[2] + b[2] + (s0 \div LimbBase)
      s2 == a[3] + b[3] + (s1 \div LimbBase)
  IN  <<s0 % LimbBase, s1 % LimbBase, s2>>

RECURSIVE Pow2(_)
Pow2(n) == IF n = 0 THEN 1 ELSE 2 * Pow2(n - 1)

RECURSIVE Bits(_)
Bits(x) == IF x = 0 THEN 0 ELSE 1 + Bits(x \div 2)

F64BitLen(a) ==
  IF a[3] > 0 THEN 44 + Bits(a[3])
  ELSE IF a[2] > 0 THEN 22 + Bits(a[2])
  ELSE Bits(a[1])

F64Round(a) ==
  LET sh == F64BitLen(a) - 53
  IN  IF sh <= 0 THEN a
      ELSE LET m    == Pow2(sh)
               rem  == a[1] % m
               half == m \div 2
               odd  == ((a[1] \div m) % 2) = 1
               t    == <<a[1] - rem, a[2], a[3]>>
           IN  IF rem > half \/ (rem = half /\ odd)
               THEN F64AddExact(t, <<m, 0, 0>>)
               ELSE t

F64Mul(c, k) == F64Round(F64MulExact(c, k))
F64Add(a, b) == F64Round(F64AddExact(a, b))

F64Less(a, b) ==
  \/ a[3] < b[3]
  \/ a[3] = b[3] /\ a[2] < b[2]
  \/ a[3] = b[3] /\ a[2] = b[2] /\ a[1] < b[1]

\* 0.2126 * r + 0.7152 * g + 0.0722 * b, evaluated left to right in doubles
Luma(r, g, b) ==
  F64Add(F64Add(F64Mul(F64_0_2126, r), F64Mul(F64_0_7152, g)),
         F64Mul(F64_0_0722, b))

\* the same expression over the reals, scaled by 10000
LumaExact10k(r, g, b) == 2126 * r + 7152 * g + 722 * b

(***************************************************************************)
(* Query coordinates.  A coordinate is k * 2^32 + h / 2 for a wrap count   *)
(* k in {0,1} and a count h of half pixels, so that fractional and very    *)
(* large arguments are both present.  `v | 0` is ToInt32: truncation       *)
(* toward zero, then reduction modulo 2^32 into [-2^31, 2^31).             *)
(***************************************************************************)
Coord(k, h) == [k |-> k, h |-> h]

TruncHalf(h) == IF h >= 0 THEN h \div 2 ELSE -((-h) \div 2)

\* k = 0: h/2 truncated toward zero.  k = 1: 2^32 + h/2 is positive, so it
\* is floored, and dropping 2^32 leaves floor(h/2).
ToInt32(c) == IF c.k = 0 THEN TruncHalf(c.h) ELSE c.h \div 2

\* the real value of a coordinate compared with an integer bound n
CoordLess(c, n)  == c.k = 0 /\ c.h < 2 * n
CoordGeq(c, n)   == ~CoordLess(c, n)


(***************************************************************************)
(* Mask buffers: the Uint8ClampedArray of getImageData, 4 bytes a pixel,   *)
(* row-major.  A buffer is a function on 0 .. 4*w*h - 1.                   *)
(***************************************************************************)
PixelVals ==
  { <<0, 0, 0, 255>>,        \* black
    <<255, 255, 255, 255>>,  \* white
    <<190, 190, 190, 255>>,  \* real luma exactly 190
    <<9, 254, 89, 255>>,     \* real luma exactly 190
    <<6, 224, 118, 255>>,    \* real luma exactly 170
    <<0, 0, 0, 0>>,          \* transparent
    <<0, 0, 0, 7>>,          \* alpha just below ALPHA_MIN
    <<0, 0, 0, 8>> }         \* alpha at ALPHA_MIN

BufferOf(px, n) == [i \in 0 .. (4 * n - 1) |-> px[i \div 4][(i % 4) + 1]]

\* every helper reads one pixel: the buffers are those with one pixel value
\* at one cell and another (or the same) value everywhere else
Buffers(w, h) ==
  { BufferOf([c \in 0 .. (w * h - 1) |-> IF c = k THEN p ELSE bg], w * h) :
      k \in 0 .. (w * h - 1), p \in PixelVals, bg \in PixelVals }

QueryXs(w) == { Coord(0, hh) : hh \in (-2) .. (2 * w) } \cup { Coord(1, 0), Coord(1, -1) }
QueryYs(h) == { Coord(0, hh) : hh \in (-2) .. (2 * h) } \cup { Coord(1, 0) }

(***************************************************************************)
(* videomosaic.js / videobezier.js / videoflock.js: module-level helpers   *)
(***************************************************************************)
\* brightnessAt without the alpha test
brightnessAt_noAlpha(maskData, w, h, x, y) ==
  IF maskData = NullBuf THEN F64FromInt(OUTSIDE_LUMA)
  ELSE LET xi == ToInt32(x)
           yi == ToInt32(y)
       IN  IF xi < 0 \/ yi < 0 \/ xi >= w \/ yi >= h THEN F64FromInt(OUTSIDE_LUMA)
           ELSE LET i == (yi * w + xi) * 4
                IN  Luma(maskData[i], maskData[i + 1], maskData[i + 2])

brightnessAt(maskData, w, h, x, y) ==
  IF maskData = NullBuf THEN F64FromInt(OUTSIDE_LUMA)
  ELSE LET xi == ToInt32(x)
           yi == ToInt32(y)
       IN  IF xi < 0 \/ yi < 0 \/ xi >= w \/ yi >= h THEN F64FromInt(OUTSIDE_LUMA)
           ELSE LET i == (yi * w + xi) * 4
                IN  IF maskData[i + 3] < ALPHA_MIN THEN F64FromInt(OUTSIDE_LUMA)
                    ELSE Luma(maskData[i], maskData[i + 1], maskData[i + 2])

\* the buffer indices brightnessAt reads on the same arguments
brightnessAtReads(maskData, w, h, x, y) ==
  IF maskData = NullBuf THEN {}
  ELSE LET xi == ToInt32(x)
           yi == ToInt32(y)
       IN  IF xi < 0 \/ yi < 0 \/ xi >= w \/ yi >= h THEN {}
           ELSE LET i == (yi * w + xi) * 4
                IN  IF maskData[i + 3] < ALPHA_MIN THEN {i + 3}
                    ELSE {i, i + 1, i + 2, i + 3}

isInside(maskData, w, h, x, y) ==
  F64Less(brightnessAt(maskData, w, h, x, y), F64FromInt(SIL_BRIGHTNESS_THRESHOLD))

(***************************************************************************)
(* playlist.js: VideoPlaylist.isSilhouetteAt                               *)
(***************************************************************************)
\* the buffer indices isSilhouetteAt reads
isSilhouetteAtReads(maskData, width, height, px, py) ==
  IF maskData = NullBuf THEN {}
  ELSE LET x == ToInt32(px)
           y == ToInt32(py)
       IN  IF x < 0 \/ y < 0 \/ x >= width \/ y >= height THEN {}
           ELSE LET idx == (y * width + x) * 4
                IN  IF maskData[idx + 3] < ALPHA_MIN THEN {idx + 3}
                    ELSE {idx, idx + 1, idx + 2, idx + 3}

\* isSilhouetteAt answering "inside" while there is no mask
isSilhouetteAt_nullInside(maskData, width, height, px, py) ==
  IF maskData = NullBuf THEN TRUE
  ELSE LET x == ToInt32(px)
           y == ToInt32(py)
       IN  IF x < 0 \/ y < 0 \/ x >= width \/ y >= height THEN FALSE
           ELSE LET idx == (y * width + x) * 4
                IN  IF maskData[idx + 3] < ALPHA_MIN THEN FALSE
                    ELSE F64Less(Luma(maskData[idx], maskData[idx + 1], maskData[idx + 2]),
                                 F64FromInt(SIL_BRIGHTNESS_THRESHOLD))

isSilhouetteAt(maskData, width, height, px, py) ==
  IF maskData = NullBuf THEN FALSE
  ELSE LET x == ToInt32(px)
           y == ToInt32(py)
       IN  IF x < 0 \/ y < 0 \/ x >= width \/ y >= height THEN FALSE
           ELSE LET idx == (y * width + x) * 4
                IN  IF maskData[idx + 3] < ALPHA_MIN THEN FALSE
                    ELSE F64Less(Luma(maskData[idx], maskData[idx + 1], maskData[idx + 2]),
                                 F64FromInt(SIL_BRIGHTNESS_THRESHOLD))

(***************************************************************************)
(* sketch.js: isSilhouetteAt (global-mode sketch, its own threshold)       *)
(***************************************************************************)
sketch_isSilhouetteAt(maskData, width, height, px, py) ==
  IF maskData = NullBuf THEN FALSE
  ELSE LET x == ToInt32(px)
           y == ToInt32(py)
       IN  IF x < 0 \/ y < 0 \/ x >= width \/ y >= height THEN FALSE
           ELSE LET idx == (y * width + x) * 4
                IN  IF maskData[idx + 3] < ALPHA_MIN THEN FALSE
                    ELSE F64Less(Luma(maskData[idx], maskData[idx + 1], maskData[idx + 2]),
                                 F64FromInt(SKETCH_SIL_BRIGHTNESS_THRESHOLD))

(***************************************************************************)
(* poetry effect: PoetrySilhouetteEffect.brightnessAt / isSilhouetteAt     *)
(***************************************************************************)
Poetry_brightnessAt(maskData, w, h, px, py) ==
  IF maskData = NullBuf THEN F64FromInt(OUTSIDE_LUMA)
  ELSE LET x == ToInt32(px)
           y == ToInt32(py)
       IN  IF x < 0 \/ y < 0 \/ x >= w \/ y >= h THEN F64FromInt(OUTSIDE_LUMA)
           ELSE LET i == (y * w + x) * 4
                IN  IF maskData[i + 3] < ALPHA_MIN THEN F64FromInt(OUTSIDE_LUMA)
                    ELSE Luma(maskData[i], maskData[i + 1], maskData[i + 2])

Poetry_isSilhouetteAt(maskData, w, h, px, py) ==
  IF maskData = NullBuf THEN TRUE
  ELSE F64Less(Poetry_brightnessAt(maskData, w, h, px, py),
               F64FromInt(SIL_BRIGHTNESS_THRESHOLD))


(***************************************************************************)
(* config.js: the demo playlists, one clip id per entry                    *)
(***************************************************************************)
DESKTOP_PLAYLIST == <<"rose", "tree", "horse2">>
MOBILE_PLAYLIST  == <<"mobile">>
UPDATE_PERIOD == 3
UPDATE_ACTIVE == 2

(***************************************************************************)
(* Bounds of the playlist model                                            *)
(***************************************************************************)
MaxMedia   == 1    \* blob: URLs and camera streams ever created
Frames     == 2    \* distinguishable frames of a medium
MaxDim     == 1    \* canvas sizes 0 .. MaxDim handed to updateMask

(***************************************************************************)
(* The browser side: <video> nodes, blob URLs, camera streams.             *)
(* A node is known by its index in els; 0 stands for null.                 *)
(*   media  what the node's src / <source> children / srcObject refer to   *)
(*   rs     "empty" | "loading" | "ready" (readyState >= 2) | "error"      *)
(*   frame  the frame the node currently shows                             *)
(*   onEnded, onFirstReady, onDims: listeners registered by VideoPlaylist  *)
(***************************************************************************)
NoEl == 0
NoMedia == <<"none", "">>
Demo(clip) == <<"demo", clip>>
Blob(id)   == <<"blob", ToString(id)>>
Stream(id) == <<"stream", ToString(id)>>
DefaultDim == <<"1x1", "">>

\* this.maskData: null, or the buffer read back (target size and what was drawn)
NoMask == [dim |-> -1, px |-> <<>>]
BlankFrame == <<"blank">>

\* v.videoWidth || 1, v.videoHeight || 1: the intrinsic size of the media once
\* its metadata is there, 1 x 1 before
VideoDim(el) == IF el.rs = "ready" THEN el.media ELSE DefaultDim

\* playlist.js createHiddenVideo: a new attached node; with sources it starts
\* fetching, with '' it has none
NewVideo(sources) ==
  [attached |-> TRUE, media |-> sources,
   rs |-> IF sources = NoMedia THEN "empty" ELSE "loading",
   loop |-> FALSE, autoplay |-> FALSE, paused |-> TRUE, frame |-> 0,
   onEnded |-> FALSE, onFirstReady |-> FALSE, onDims |-> FALSE]

createHiddenVideo(W, sources) == [W EXCEPT !.els = Append(@, NewVideo(sources))]

\* HTMLMediaElement.play(): clears the paused flag at once
Play(W, e) == [W EXCEPT !.els[e].paused = FALSE]
Pause(W, e) == [W EXCEPT !.els[e].paused = TRUE]
Rewind(W, e) == [W EXCEPT !.els[e].frame = 0]

(***************************************************************************)
(* playlist.js (second, current VideoPlaylist): helpers on a world record  *)
(* W that holds the object's fields and the browser side                   *)
(***************************************************************************)
_stopCustom(W) ==
  LET W1 == IF W.customStream # 0
            THEN [W EXCEPT !.streams[W.customStream] = "stopped", !.customStream = 0]
            ELSE W
  IN  IF W1.customURL # 0
      THEN [W1 EXCEPT !.blobs[W1.customURL] = "revoked", !.customURL = 0]
      ELSE W1

_pauseAllDemo(W) ==
  [W EXCEPT !.els = [e \in DOMAIN @ |->
      IF \E i \in DOMAIN W.videoEls : W.videoEls[i] = e
      THEN [@[e] EXCEPT !.paused = TRUE] ELSE @[e]]]

\* this.videoEls[0] && document.body.contains(this.videoEls[0])
FirstDemoAttached(W) ==
  /\ Len(W.videoEls) >= 1
  /\ W.videoEls[1] # NoEl
  /\ W.els[W.videoEls[1]].attached

\* _ensureStableNode without reuse: a new node for every custom source
_ensureStableNode_alwaysNew(W) ==
  [createHiddenVideo(W, NoMedia) EXCEPT !.vidEl = Len(W.els) + 1]

\* the node returned is W'.vidEl in every branch
_ensureStableNode(W) ==
  IF W.vidEl # NoEl /\ W.els[W.vidEl].attached THEN W
  ELSE IF FirstDemoAttached(W)
       THEN [W EXCEPT !.vidEl = W.videoEls[1]]
       ELSE [createHiddenVideo(W, NoMedia) EXCEPT !.vidEl = Len(W.els) + 1]

Min(a, b) == IF a < b THEN a ELSE b
Max(a, b) == IF a > b THEN a ELSE b

\* videoEls[i] = v on a JavaScript array: a write past the end leaves holes
\* (undefined, NoEl here) before it
SetAt(seq, i, v) ==
  [k \in 1 .. Max(Len(seq), i) |->
     IF k = i THEN v ELSE IF k <= Len(seq) THEN seq[k] ELSE NoEl]

\* clearCustom dereferences this.vidEl; it raises a TypeError when both
\* videoEls[activeIdx] and videoEls[0] are holes
ClearCustomDemo(W) ==
  LET idx == Max(0, Min(W.activeIdx, Len(W.videoEls) - 1))
  IN  IF W.videoEls[idx + 1] # NoEl THEN W.videoEls[idx + 1] ELSE W.videoEls[1]

ClearCustomThrows(W) == Len(W.videoEls) > 0 /\ ClearCustomDemo(W) = NoEl

\* clearCustom without its return to the demo element
clearCustom_keepNode(W) == [_stopCustom(W) EXCEPT !.mode = "playlist"]

clearCustom(W) ==
  LET W1 == [_stopCustom(W) EXCEPT !.mode = "playlist"]
  IN  IF Len(W1.videoEls) > 0
      THEN LET idx  == Max(0, Min(W1.activeIdx, Len(W1.videoEls) - 1))
               demo == ClearCustomDemo(W1)
           IN  IF demo = NoEl
               THEN [W1 EXCEPT !.activeIdx = idx, !.vidEl = NoEl]
               ELSE LET W2 == [W1 EXCEPT !.activeIdx = idx, !.vidEl = demo,
                                         !.vidDim = VideoDim(W1.els[demo]),
                                         !.loaded = TRUE, !.maskData = NoMask]
                    IN  Play(Rewind(W2, demo), demo)
      ELSE [W1 EXCEPT !.vidEl = NoEl, !.loaded = FALSE, !.maskData = NoMask]

\* next without the wrap-around
next_noWrap(W) ==
  IF W.mode # "playlist" \/ Len(W.videoEls) = 0 THEN W
  ELSE LET idx == Min(W.activeIdx + 1, Len(W.videoEls) - 1)
       IN  [W EXCEPT !.activeIdx = idx, !.vidEl = W.videoEls[idx + 1]]

\* next dereferences the new this.vidEl; on a hole it raises a TypeError after
\* activeIdx and vidEl are written
next(W) ==
  IF W.mode # "playlist" THEN W
  ELSE IF Len(W.videoEls) = 0 THEN W
  ELSE LET W1  == IF W.vidEl # NoEl THEN Pause(W, W.vidEl) ELSE W
           idx == (W1.activeIdx + 1) % Len(W1.videoEls)
           v   == W1.videoEls[idx + 1]
           W2  == [W1 EXCEPT !.activeIdx = idx, !.vidEl = v]
       IN  IF v = NoEl THEN W2
           ELSE LET W3 == IF W2.els[v].rs \in {"empty", "loading", "error"}
                          THEN [W2 EXCEPT !.els[v].onDims = TRUE]
                          ELSE [W2 EXCEPT !.vidDim = VideoDim(W2.els[v])]
                    W4 == [W3 EXCEPT !.maskData = NoMask, !.loaded = TRUE]
                IN  Play(Rewind(W4, v), v)

(***************************************************************************)
(* init and its 'loadeddata' listener                                      *)
(***************************************************************************)
init(W) ==
  IF Len(W.list) = 0 THEN W
  ELSE LET W1 == createHiddenVideo(W, Demo(W.list[1]))
           first == Len(W1.els)
       IN  [W1 EXCEPT !.videoEls = SetAt(@, 1, first),
                      !.els[first].onFirstReady = TRUE]

RECURSIVE PreloadRest(_, _)
PreloadRest(W, i) ==
  IF i > Len(W.list) THEN W
  ELSE LET W1 == createHiddenVideo(W, Demo(W.list[i]))
           v  == Len(W1.els)
       IN  PreloadRest([W1 EXCEPT !.videoEls = SetAt(@, i, v),
                                  !.els[v].onEnded = TRUE], i + 1)

onFirstReady(W, first) ==
  LET W1 == [W EXCEPT !.activeIdx = 0, !.vidEl = first,
                      !.vidDim = VideoDim(W.els[first]), !.loaded = TRUE]
      W2 == Play(Rewind(W1, first), first)
      W3 == [W2 EXCEPT !.els[first].onEnded = TRUE]
  IN  PreloadRest(W3, 2)

(***************************************************************************)
(* dispose: every demo node is paused, emptied, reloaded and detached.     *)
(* A node that still has <source> children starts fetching them again on   *)
(* load(); a node whose only media was src / srcObject is left empty.      *)
(***************************************************************************)
DisposeNode(el) ==
  IF el.media[1] = "demo"
  THEN [el EXCEPT !.paused = TRUE, !.rs = "loading", !.frame = 0, !.attached = FALSE]
  ELSE [el EXCEPT !.paused = TRUE, !.media = NoMedia, !.rs = "empty",
                  !.frame = 0, !.attached = FALSE]

dispose(W) ==
  LET W1 == _stopCustom(W)
      W2 == [W1 EXCEPT !.els = [e \in DOMAIN @ |->
                IF \E i \in DOMAIN W1.videoEls : W1.videoEls[i] = e
                THEN DisposeNode(@[e]) ELSE @[e]]]
  IN  [W2 EXCEPT !.videoEls = <<>>, !.vidEl = NoEl, !.loaded = FALSE,
                 !.maskData = NoMask]

(***************************************************************************)
(* useVideoFile / useWebcam.  Each call runs up to its await, is then kept *)
(* in `pending` until the media event it waits for, and resumes in the     *)
(* same step as that event (listeners first, then the continuations, in    *)
(* the order the listeners were registered).                               *)
(***************************************************************************)
\* what a caller can observe of the source state
Snap(W) ==
  [mode |-> W.mode, vidEl |-> W.vidEl, loaded |-> W.loaded,
   custom |-> <<W.customURL, W.customStream>>,
   media |-> IF W.vidEl # NoEl THEN W.els[W.vidEl].media ELSE NoMedia]

\* useVideoFile from `try {` to the await of 'loadeddata' / 'error'
useVideoFile_attach(W) ==
  LET W1   == _stopCustom(W)
      W2   == [W1 EXCEPT !.blobs = Append(@, "live")]
      blob == Len(W2.blobs)
      W3   == _pauseAllDemo(_ensureStableNode(W2))
      v    == W3.vidEl
  IN  [W3 EXCEPT !.els[v].paused = TRUE, !.els[v].media = Blob(blob),
                 !.els[v].loop = TRUE, !.els[v].autoplay = TRUE,
                 !.els[v].rs = "loading", !.els[v].frame = 0]

\* useVideoFile after the await
useVideoFile_resume(W, call) ==
  LET v  == call.v
      W1 == [W EXCEPT !.mode = "file", !.customURL = call.res, !.vidEl = v,
                      !.vidDim = VideoDim(W.els[v]), !.loaded = TRUE,
                      !.maskData = NoMask]
  IN  Play(Rewind(W1, v), v)

\* useWebcam from the resolution of getUserMedia to the await of 'loadeddata'
useWebcam_attach(W) ==
  LET W2     == [W EXCEPT !.streams = Append(@, "live")]
      stream == Len(W2.streams)
      W3     == _pauseAllDemo(_ensureStableNode(W2))
      v      == W3.vidEl
  IN  [W3 EXCEPT !.els[v].paused = TRUE, !.els[v].media = Stream(stream),
                 !.els[v].loop = FALSE, !.els[v].autoplay = TRUE,
                 !.els[v].rs = "loading", !.els[v].frame = 0]

\* useWebcam after the await
useWebcam_resume(W, call) ==
  LET v  == call.v
      W1 == [W EXCEPT !.mode = "webcam", !.customStream = call.res, !.vidEl = v,
                      !.vidDim = VideoDim(W.els[v]), !.loaded = TRUE,
                      !.maskData = NoMask]
  IN  Play(W1, v)

Resume(W, call) ==
  IF call.kind = "file" THEN useVideoFile_resume(W, call) ELSE useWebcam_resume(W, call)

\* the continuations of the calls of `calls`, in order
RECURSIVE ResumeAll(_, _)
ResumeAll(W, calls) ==
  IF calls = <<>> THEN W ELSE ResumeAll(Resume(W, Head(calls)), Tail(calls))

\* the catch blocks of the calls of `calls`, in order
RECURSIVE FailAll(_, _)
FailAll(W, calls) ==
  IF calls = <<>> THEN W ELSE FailAll(clearCustom(W), Tail(calls))

(***************************************************************************)
(* updateMask.  The pixels read back are determined by the node drawn, its *)
(* media and current frame, the stored video size and the target size;     *)
(* a node without a current frame draws nothing (transparent buffer).      *)
(* getImageData raises IndexSizeError for a target of size 0.              *)
(***************************************************************************)
Readback(W, dim) ==
  LET el == W.els[W.vidEl]
  IN  [dim |-> dim,
       px  |-> IF el.rs = "ready"
               THEN <<el.media[1], el.media[2], ToString(el.frame), W.vidDim[1], W.vidDim[2]>>
               ELSE BlankFrame]

\* a throttle that redraws on one tick of the period only
DoUpdate_oneTick(W) == (W.updateCounter % UPDATE_PERIOD) < UPDATE_ACTIVE - 1

DoUpdate(W) == (W.updateCounter % UPDATE_PERIOD) < UPDATE_ACTIVE

\* TRUE when the call reaches drawImage / getImageData
Redraws(W) ==
  /\ ~(~DoUpdate(W) /\ W.maskData # NoMask)
  /\ W.loaded /\ W.vidEl # NoEl

\* an updateMask whose skipped ticks drop the stored buffer
updateMask_skipDrops(W, dim) ==
  LET W1 == [W EXCEPT !.updateCounter = (@ + 1) % UPDATE_PERIOD]
  IN  IF ~((W.updateCounter % UPDATE_PERIOD) < UPDATE_ACTIVE)
      THEN [W1 EXCEPT !.maskData = NoMask]
      ELSE IF ~W.loaded \/ W.vidEl = NoEl \/ dim = 0 THEN [W1 EXCEPT !.maskData = NoMask]
      ELSE [W1 EXCEPT !.maskData = Readback(W, dim)]

updateMask(W, dim) ==
  LET W1 == [W EXCEPT !.updateCounter = (@ + 1) % UPDATE_PERIOD]
  IN  IF ~DoUpdate(W) /\ W.maskData # NoMask THEN W1
      ELSE IF ~W.loaded \/ W.vidEl = NoEl THEN [W1 EXCEPT !.maskData = NoMask]
      ELSE IF dim = 0 THEN [W1 EXCEPT !.maskData = NoMask]
      ELSE [W1 EXCEPT !.maskData = Readback(W, dim)]

(***************************************************************************)
(* State                                                                   *)
(***************************************************************************)
VARIABLES
  \* mask helpers: the buffer an effect holds, the size it passes, the
  \* point it asks about and what each helper answered
  mbuf, mW, mH, query, out,
  \* VideoPlaylist fields
  list, videoEls, activeIdx, vidEl, vidDim, loaded, maskData, updateCounter,
  mode, customURL, customStream,
  \* browser side
  els, blobs, streams,
  \* calls in flight, init called
  pending, inited,
  \* observation of the last step and of the recent updateMask / next calls
  ev, umHist, visits

maskVars == <<mbuf, mW, mH, query, out>>
plVars == <<list, videoEls, activeIdx, vidEl, vidDim, loaded, maskData,
            updateCounter, mode, customURL, customStream, els, blobs, streams>>
obsVars == <<pending, inited, ev, umHist, visits>>

VARIABLES
  \* app.js: which build of switchEffect runs, the effects made by boot, the
  \* p5 instances constructed, the module's globals and the queued
  \* setTimeout(() => boot(key), 0) callbacks
  build, effects, sketches, p5Instance, currentKey, timers, autoRotateTimer,
  userInteracted, switches,
  \* the interval timers alive in the browser and the rotateToNext calls made
  intervals, rotations

appVars == <<build, effects, sketches, p5Instance, currentKey, timers,
             autoRotateTimer, userInteracted, switches, intervals, rotations>>

VARIABLES
  \* traildrip.js: the shared occupancy grid, the drips the effect holds,
  \* TrailDrip._nextId, whether the last placeRect call found its cells free,
  \* and the position of the running frame (update loop, then draw)
  occ, drips, nextId, lastPlace, gpc

gridVars == <<occ, drips, nextId, lastPlace, gpc>>

VARIABLES
  \* an occupancy grid on which the rectangle helpers are called directly,
  \* and the last call with its arguments and what it answered
  board, rq

rectVars == <<board, rq>>

VARIABLES
  \* main.js: the tiles of the bento grid (data-col, data-row, data-w,
  \* data-h, 0-based) and the extendTileInto calls of the last handler
  tiles, tcalls

tileVars == <<tiles, tcalls>>

VARIABLES
  \* VideoThresholdEffect: p.millis() in hundredths of a second, the finite
  \* events, the spawning handlers run so far, and what the last frame saw
  now, ripples, cuts, bursts, fr

envVars == <<now, ripples, cuts, bursts, fr>>

VARIABLES
  \* which of the two effects runs, and VideoConnectedParticlesEffect:
  \* p.millis() in seconds, its floaters and colour ripples, the spawning
  \* handlers run so far, and what the last handler did
  running, pnow, floaters, pripples, presses, pobs

partVars == <<running, pnow, floaters, pripples, presses, pobs>>

VARIABLES
  \* AsciiLayer / AsciiEffect: one pixel of the accumulation buffer, the
  \* effect's trailStrength in thousandths, the frames drawn so far, and the
  \* pixel at the start of the current run of idle frames with their deltas
  pix, trailStrength, fticks, frun

fadeVars == <<pix, trailStrength, fticks, frun>>

VARIABLES
  \* the spring-return entities, in thousandths of a pixel (per second): a
  \* HoverPoint (x - x0, vx), a mosaic panel (ox, vx), and the frame
  \* interval of the run in milliseconds (0 before the entities are pushed)
  hx, hvx, ox, ovx, sdt

springVars == <<hx, hvx, ox, ovx, sdt>>

VARIABLES
  \* the mosaic effect: the mask of its last _packNow call and what the call
  \* returned
  pkMask, pkOut

packVars == <<pkMask, pkOut>>
notFade == <<appVars, gridVars, rectVars, tileVars, envVars, partVars, springVars, packVars>>
notSpring == <<appVars, gridVars, rectVars, tileVars, envVars, partVars, fadeVars, packVars>>
notPack == <<appVars, gridVars, rectVars, tileVars, envVars, partVars, fadeVars, springVars>>
moreVars == <<partVars, fadeVars, springVars, packVars>>
notApp == <<gridVars, rectVars, tileVars, envVars, moreVars>>
notGrid == <<appVars, rectVars, tileVars, envVars, moreVars>>
notRect == <<appVars, gridVars, tileVars, envVars, moreVars>>
notTile == <<appVars, gridVars, rectVars, envVars, moreVars>>
notEnv == <<appVars, gridVars, rectVars, tileVars, moreVars>>
notPart == <<appVars, gridVars, rectVars, tileVars, envVars, fadeVars, springVars, packVars>>
sideVars == <<appVars, gridVars, rectVars, tileVars, envVars, moreVars>>
vars == <<maskVars, plVars, obsVars, sideVars>>

World ==
  [list |-> list, videoEls |-> videoEls, activeIdx |-> activeIdx, vidEl |-> vidEl,
   vidDim |-> vidDim, loaded |-> loaded, maskData |-> maskData,
   updateCounter |-> updateCounter, mode |-> mode, customURL |-> customURL,
   customStream |-> customStream, els |-> els, blobs |-> blobs, streams |-> streams]

SetWorld(W) ==
  /\ list' = W.list /\ videoEls' = W.videoEls /\ activeIdx' = W.activeIdx
  /\ vidEl' = W.vidEl /\ vidDim' = W.vidDim /\ loaded' = W.loaded
  /\ maskData' = W.maskData /\ updateCounter' = W.updateCounter
  /\ mode' = W.mode /\ customURL' = W.customURL /\ customStream' = W.customStream
  /\ els' = W.els /\ blobs' = W.blobs /\ streams' = W.streams

NoQuery == [x |-> Coord(0, 0), y |-> Coord(0, 0), asked |-> FALSE]
NoOut == [asked |-> FALSE]
NoEv == [op |-> "none", calls |-> <<>>, idx0 |-> 0, advanced |-> FALSE]

\* the VideoPlaylist constructor
PlaylistInit ==
  /\ list \in {MOBILE_PLAYLIST, DESKTOP_PLAYLIST}
  /\ videoEls = <<>> /\ activeIdx = 0 /\ vidEl = NoEl /\ vidDim = DefaultDim
  /\ loaded = FALSE /\ maskData = NoMask /\ updateCounter = 0
  /\ mode = "playlist" /\ customURL = 0 /\ customStream = 0
  /\ els = <<>> /\ blobs = <<>> /\ streams = <<>>
  /\ pending = <<>> /\ inited = FALSE
  /\ ev = NoEv /\ umHist = <<>> /\ visits = <<>>

MaskInit ==
  /\ mbuf = NullBuf /\ mW = 1 /\ mH = 1 /\ query = NoQuery /\ out = NoOut

\* app.js module scope before the first boot()
AppInit ==
  /\ build = "none" /\ effects = <<>> /\ sketches = <<>> /\ p5Instance = 0
  /\ currentKey = "video+threshold" /\ timers = <<>>
  /\ autoRotateTimer = FALSE /\ userInteracted = FALSE /\ switches = 0
  /\ intervals = 0 /\ rotations = 0

\* the size of the drip grid (cols x rows) and the drips ever constructed
GridCols == 2
GridRows == 2
MaxDrips == 2

\* resetOccupancy(cols, rows): occ[y][x] = null everywhere (null is 0 here,
\* and cell (x, y) of the code is occ[y + 1][x + 1])
resetOccupancy(cols, rows) == [y \in 1 .. rows |-> [x \in 1 .. cols |-> 0]]

GridIdle == [phase |-> "idle", i |-> 0, safety |-> 0]
NoPlace == [id |-> 0, free |-> TRUE]

\* the size of the grid the rectangle helpers are asked about
RectCols == 2
RectRows == 1

NoRect == [c |-> 0, r |-> 0, w |-> 1, h |-> 1]
NoCall == [op |-> "none", id |-> 0, q |-> NoRect, pre |-> <<>>,
           can |-> FALSE, strict |-> FALSE, fits |-> "false"]

RectInit == board = resetOccupancy(RectCols, RectRows) /\ rq = NoCall

\* main.js before boot has built the grid
TileInit == tiles = <<>> /\ tcalls = {}

\* no frame has run
NoFrame == [done |-> FALSE, at |-> 0, preR |-> <<>>, preC |-> <<>>, valR |-> <<>>,
            valC |-> <<>>, nR |-> 0, nC |-> 0, drawR |-> <<>>, drawC |-> <<>>]

\* the threshold effect as constructed: no ripples, no cuts
EnvInit == now = 0 /\ ripples = <<>> /\ cuts = <<>> /\ bursts = 0 /\ fr = NoFrame

\* no handler of the particles effect has run
NoSpawn == [done |-> FALSE, at |-> 0, pre |-> <<>>, n |-> 0, peak |-> 0]

\* a pixel of the accumulation buffer: has is FALSE when nothing but
\* background is left in it; otherwise what is left of its mark is
\* decayPerFrame ^ (e / 167) times the product of (1 - k / 35000) over fills
Cleared == [has |-> FALSE, e |-> 0, fills |-> <<>>]
NoRun == [start |-> Cleared, ds |-> <<>>]

\* gAccum.clear() in the constructor; strength 0
FadeInit == pix = Cleared /\ trailStrength = 0 /\ fticks = 0 /\ frun = NoRun

\* no _packNow call yet
NoPack == [panels |-> <<>>, fallbacks |-> 0]
\* what a call site of _packNow got back
Called(site, res) == [site |-> site, panels |-> res.panels, fallbacks |-> res.fallbacks]

PackInit == pkMask = NullBuf /\ pkOut = Called("none", NoPack)

\* every entity rests at its home
SpringInit == hx = 0 /\ hvx = 0 /\ ox = 0 /\ ovx = 0 /\ sdt = 0

\* no effect is set up yet
PartInit ==
  /\ running = "none" /\ pnow = 0 /\ floaters = <<>> /\ pripples = <<>>
  /\ presses = 0 /\ pobs = NoSpawn

\* the effect after setup: an empty grid and no drips
GridInit ==
  /\ occ = resetOccupancy(GridCols, GridRows) /\ drips = <<>> /\ nextId = 1
  /\ lastPlace = NoPlace /\ gpc = GridIdle

Init == MaskInit /\ PlaylistInit /\ AppInit /\ GridInit /\ RectInit /\ TileInit /\ EnvInit /\ PartInit /\ FadeInit /\ SpringInit /\ PackInit

(***************************************************************************)
(* SpecMask: an effect holds a buffer and asks the helpers about a point   *)
(***************************************************************************)
\* a tick of an effect: this.maskData = this.video.updateMask(...), which is
\* a buffer of the canvas size or null
SetMask ==
  /\ ~out.asked /\ mbuf = NullBuf
  /\ \E w \in 1 .. MaxW, h \in 1 .. MaxH :
       \E b \in Buffers(w, h) \cup {NullBuf} :
         /\ mbuf' = b /\ mW' = w /\ mH' = h
         /\ UNCHANGED <<query, out, plVars, obsVars, sideVars>>

\* the effect asks every helper about one point
Ask ==
  /\ ~out.asked
  /\ \E x \in QueryXs(mW), y \in QueryYs(mH) :
       /\ query' = [x |-> x, y |-> y, asked |-> TRUE]
       /\ out' = [asked  |-> TRUE,
                  br     |-> brightnessAt(mbuf, mW, mH, x, y),
                  reads  |-> brightnessAtReads(mbuf, mW, mH, x, y),
                  inside |-> isInside(mbuf, mW, mH, x, y),
                  sil    |-> isSilhouetteAt(mbuf, mW, mH, x, y),
                  silReads |-> isSilhouetteAtReads(mbuf, mW, mH, x, y),
                  sketch |-> sketch_isSilhouetteAt(mbuf, mW, mH, x, y),
                  pBr    |-> Poetry_brightnessAt(mbuf, mW, mH, x, y),
                  pSil   |-> Poetry_isSilhouetteAt(mbuf, mW, mH, x, y)]
       /\ UNCHANGED <<mbuf, mW, mH, plVars, obsVars, sideVars>>

\* the tick is over; the next one fetches the mask again
EndTick ==
  /\ out.asked
  /\ mbuf' = NullBuf /\ query' = NoQuery /\ out' = NoOut
  /\ UNCHANGED <<mW, mH, plVars, obsVars, sideVars>>

NextMask == SetMask \/ Ask \/ EndTick

SpecMask == Init /\ [][NextMask]_vars

(***************************************************************************)
(* Spec: the VideoPlaylist, the media events of its nodes and its clients  *)
(***************************************************************************)
Dims == 0 .. MaxDim

InVideoEls(e) == \E i \in DOMAIN videoEls : videoEls[i] = e

\* what the step reports; every step other than updateMask and a new frame
\* may change the source and starts the record of updateMask calls afresh
Observe(e, hist) == /\ ev' = e /\ umHist' = hist

\* a step with a result to report
Step(op) == [NoEv EXCEPT !.op = op]
\* a step with nothing to report
Quiet == NoEv

\* this.vidEl is a node of the document
ActiveInDoc == vidEl # NoEl /\ els[vidEl].attached

\* the result of one call, with the source state seen when it was made (snap),
\* the handle that was active when it attached its media (handle) and whether
\* that handle was a node of the document (inDoc)
Result(call, outcome) ==
  [kind |-> call.kind, outcome |-> outcome, snap |-> call.snap,
   handle |-> call.handle, inDoc |-> call.inDoc, v |-> call.v]

Results(calls, outcome) == [k \in DOMAIN calls |-> Result(calls[k], outcome)]

Waiting(e) == SelectSeq(pending, LAMBDA c : c.stage = "load" /\ c.v = e)
NotWaiting(e) == SelectSeq(pending, LAMBDA c : ~(c.stage = "load" /\ c.v = e))

RemoveAt(seq, i) == [k \in 1 .. (Len(seq) - 1) |-> IF k < i THEN seq[k] ELSE seq[k + 1]]

\* custom media created so far, or about to be by a call in flight
MediaCount ==
  Len(blobs) + Len(streams) + Len(SelectSeq(pending, LAMBDA c : c.stage = "gum"))

\* init(width, height), called once by the owner right after construction
CallInit ==
  /\ ~inited
  /\ SetWorld(init(World))
  /\ inited' = TRUE
  /\ Observe(Quiet, <<>>)
  /\ visits' = <<>>
  /\ UNCHANGED <<pending, maskVars, sideVars>>

\* the media of a node can be fetched and decoded up to its first frame
Loadable(el) ==
  \/ el.media[1] = "demo"
  \/ el.media[1] = "blob"
  \/ el.media[1] = "stream" /\ \E id \in DOMAIN streams :
                                  el.media = Stream(id) /\ streams[id] = "live"

\* the program can still see node e: it holds a reference to it, the node is
\* in the document, or one of its listeners is waiting on it
Held(e) ==
  \/ els[e].attached \/ e = vidEl \/ InVideoEls(e)
  \/ els[e].onFirstReady \/ els[e].onDims
  \/ \E k \in DOMAIN pending : pending[k].v = e

\* 'loadeddata' on node e: onFirstReady (init), the size listener of next(),
\* then the continuations of the calls awaiting e
LoadedData(e) ==
  /\ els[e].rs = "loading" /\ Loadable(els[e])
  /\ Held(e)
  /\ LET W0 == [World EXCEPT !.els[e].rs = "ready", !.els[e].frame = 0,
                             !.els[e].paused = IF els[e].autoplay THEN FALSE ELSE @]
         W1 == IF els[e].onFirstReady
               THEN onFirstReady([W0 EXCEPT !.els[e].onFirstReady = FALSE], e)
               ELSE W0
         W2 == IF W1.els[e].onDims
               THEN [W1 EXCEPT !.els[e].onDims = FALSE,
                               !.vidDim = IF W1.vidEl # NoEl
                                          THEN VideoDim(W1.els[W1.vidEl]) ELSE @]
               ELSE W1
         calls == Waiting(e)
     IN  /\ SetWorld(ResumeAll(W2, calls))
         /\ pending' = NotWaiting(e)
         /\ Observe(IF calls = <<>> THEN Quiet
                    ELSE [Step("loadeddata") EXCEPT !.calls = Results(calls, "ok")], <<>>)
         /\ visits' = IF els[e].onFirstReady \/ calls # <<>> THEN <<>> ELSE visits
  /\ UNCHANGED <<inited, maskVars, sideVars>>

\* 'error' on node e (the file cannot be decoded): the calls awaiting e run
\* their catch block
ErrorEvent(e) ==
  /\ els[e].rs = "loading" /\ els[e].media[1] = "blob"
  /\ LET W0 == [World EXCEPT !.els[e].rs = "error"]
         calls == Waiting(e)
     IN  /\ SetWorld(FailAll(W0, calls))
         /\ pending' = NotWaiting(e)
         /\ Observe(IF calls = <<>> THEN Quiet
                    ELSE [Step("error") EXCEPT !.calls =
                            Results(calls, IF ClearCustomThrows(W0) THEN "throw" ELSE "fail")],
                    <<>>)
         /\ visits' = IF calls # <<>> THEN <<>> ELSE visits
  /\ UNCHANGED <<inited, maskVars, sideVars>>

Playing(el) == ~el.paused /\ el.rs = "ready" /\ Loadable(el)

\* a playing node shows its next frame
NewFrame(e) ==
  /\ Playing(els[e])
  /\ els' = [els EXCEPT ![e].frame = (@ + 1) % Frames]
  /\ ev' = Quiet
  /\ umHist' = IF e = vidEl /\ umHist # <<>>
               THEN [umHist EXCEPT ![Len(umHist)].frameAfter = TRUE] ELSE umHist
  /\ UNCHANGED <<list, videoEls, activeIdx, vidEl, vidDim, loaded, maskData,
                 updateCounter, mode, customURL, customStream, blobs, streams,
                 pending, inited, visits, maskVars, sideVars>>

\* 'ended' on node e: playback stops (the node is paused) and the listener
\* installed by init calls next()
EndOfClip(e) ==
  /\ Playing(els[e]) /\ ~els[e].loop /\ els[e].media[1] # "stream"
  /\ LET W0 == Pause(World, e)
         adv == els[e].onEnded /\ mode = "playlist" /\ Len(videoEls) > 0
     IN  /\ SetWorld(IF els[e].onEnded THEN next(W0) ELSE W0)
         /\ Observe([Step("ended") EXCEPT !.idx0 = activeIdx, !.advanced = adv], <<>>)
         /\ visits' = IF ~adv THEN visits
                      ELSE LET seq == IF visits = <<>> THEN <<activeIdx>> ELSE visits
                               all == Append(seq, (activeIdx + 1) % Len(videoEls))
                           IN  IF Len(all) > Len(videoEls) + 1 THEN Tail(all) ELSE all
  /\ UNCHANGED <<pending, inited, maskVars, sideVars>>

\* useVideoFile(file) with a file that is neither video/* nor .mp4 / .webm /
\* .mov / .m4v: `throw new Error('Unsupported file type')` before the try
UseVideoFileUnsupported ==
  /\ inited
  /\ Observe([Step("useVideoFile") EXCEPT !.calls =
       <<[kind |-> "file", outcome |-> "throw", snap |-> Snap(World),
          handle |-> vidEl, inDoc |-> ActiveInDoc, v |-> NoEl]>>], <<>>)
  /\ UNCHANGED <<plVars, pending, inited, visits, maskVars, sideVars>>

\* useVideoFile(file) with an accepted file, up to its await
UseVideoFile ==
  /\ inited
  /\ MediaCount < MaxMedia
  /\ LET W1 == useVideoFile_attach(World)
     IN  /\ SetWorld(W1)
         /\ pending' = Append(pending,
              [kind |-> "file", stage |-> "load", v |-> W1.vidEl,
               res |-> Len(W1.blobs), snap |-> Snap(World), handle |-> vidEl,
               inDoc |-> ActiveInDoc])
  /\ Observe(Quiet, <<>>)
  /\ visits' = <<>>
  /\ UNCHANGED <<inited, maskVars, sideVars>>

\* useWebcam(), up to the await of getUserMedia
UseWebcam ==
  /\ inited
  /\ MediaCount < MaxMedia
  /\ SetWorld(_stopCustom(World))
  /\ pending' = Append(pending,
       [kind |-> "webcam", stage |-> "gum", v |-> NoEl, res |-> 0,
        snap |-> Snap(World), handle |-> NoEl, inDoc |-> FALSE])
  /\ Observe(Quiet, <<>>)
  /\ UNCHANGED <<inited, visits, maskVars, sideVars>>

\* getUserMedia resolves for the i-th call in flight
GumResolve(i) ==
  /\ pending[i].stage = "gum"
  /\ Len(blobs) + Len(streams) < MaxMedia
  /\ LET W1 == useWebcam_attach(World)
     IN  /\ SetWorld(W1)
         /\ pending' = Append(RemoveAt(pending, i),
              [pending[i] EXCEPT !.stage = "load", !.v = W1.vidEl,
                                 !.res = Len(W1.streams), !.handle = vidEl,
                                 !.inDoc = ActiveInDoc])
  /\ Observe(Quiet, <<>>)
  /\ visits' = <<>>
  /\ UNCHANGED <<inited, maskVars, sideVars>>

\* getUserMedia rejects (permission denied, no camera): the catch block
GumReject(i) ==
  /\ pending[i].stage = "gum"
  /\ SetWorld(clearCustom(World))
  /\ pending' = RemoveAt(pending, i)
  /\ Observe([Step("getUserMedia") EXCEPT !.calls =
       <<Result(pending[i], IF ClearCustomThrows(World) THEN "throw" ELSE "fail")>>], <<>>)
  /\ visits' = <<>>
  /\ UNCHANGED <<inited, maskVars, sideVars>>

\* clearCustom() called by the owner
ClearCustom ==
  /\ inited
  /\ SetWorld(clearCustom(World))
  /\ Observe(Quiet, <<>>)
  /\ visits' = <<>>
  /\ UNCHANGED <<pending, inited, maskVars, sideVars>>

\* dispose() called by the owner
Dispose ==
  /\ inited
  /\ SetWorld(dispose(World))
  /\ Observe(Quiet, <<>>)
  /\ visits' = <<>>
  /\ UNCHANGED <<pending, inited, maskVars, sideVars>>

LastN(seq, n) == IF Len(seq) <= n THEN seq ELSE SubSeq(seq, Len(seq) - n + 1, Len(seq))

\* what is kept of a call once two later calls have been made
Older(h) == [h EXCEPT !.dim = -1, !.ret = NoMask, !.frameAfter = FALSE]

\* updateMask(width, height) called by an effect tick.  umHist keeps the last
\* UPDATE_PERIOD calls made since the source last changed:
\*   phase       updateCounter when the call was made
\*   pre         the playlist was loaded and held a mask when the call was made
\*   redraw      the call reached drawImage
\*   held        the call returned the buffer that was stored before it
\*   dim         the target size passed
\*   ret         the buffer returned
\*   frameAfter  the active node showed a new frame after the call
\* (dim, ret and frameAfter for the last two calls only)
UpdateMask(d) ==
  /\ inited
  /\ LET W1 == updateMask(World, d)
         h  == [phase  |-> updateCounter,
                pre    |-> loaded /\ vidEl # NoEl /\ maskData # NoMask,
                redraw |-> Redraws(World),
                held   |-> W1.maskData = maskData,
                dim    |-> d,
                ret    |-> W1.maskData,
                frameAfter |-> FALSE]
         n  == Len(umHist)
     IN  /\ SetWorld(W1)
         /\ umHist' = LastN(Append([k \in 1 .. n |->
                                     IF k < n THEN Older(umHist[k]) ELSE umHist[k]], h),
                            UPDATE_PERIOD)
  /\ ev' = Quiet
  /\ UNCHANGED <<pending, inited, visits, maskVars, sideVars>>

Next ==
  \/ CallInit
  \/ \E e \in DOMAIN els : LoadedData(e)
  \/ \E e \in DOMAIN els : ErrorEvent(e)
  \/ \E e \in DOMAIN els : EndOfClip(e)
  \/ UseVideoFileUnsupported
  \/ UseVideoFile
  \/ UseWebcam
  \/ \E i \in DOMAIN pending : GumResolve(i)
  \/ \E i \in DOMAIN pending : GumReject(i)
  \/ ClearCustom
  \/ Dispose

Spec == Init /\ [][Next]_vars

(***************************************************************************)
(* SpecThrottle: the demo playlist playing while an effect samples it      *)
(***************************************************************************)
NextThrottle ==
  \/ CallInit
  \/ \E e \in DOMAIN els : LoadedData(e)
  \/ \E e \in DOMAIN els : NewFrame(e)
  \/ \E e \in DOMAIN els : EndOfClip(e)
  \/ \E d \in Dims : UpdateMask(d)

SpecThrottle == Init /\ [][NextThrottle]_vars

(***************************************************************************)
(* SpecApp: app.js -- boot, switchEffect, the dots of the dock and the     *)
(* auto-rotate interval.  Every effect made by boot is kept in `effects`   *)
(* together with the VideoPlaylist its setup constructed for itself, and   *)
(* every p5 instance ever constructed is kept in `sketches`.  The shared   *)
(* playlist of boot is the playlist of the variables above.                *)
(***************************************************************************)
MaxSwitches == 2

\* getEffectOrder()
EFFECT_ORDER ==
  <<"video+threshold", "ascii+drips", "video+particles", "video+bezier", "video+mosaic">>

EffectKeys == {EFFECT_ORDER[i] : i \in DOMAIN EFFECT_ORDER}

\* order.indexOf(key), 0-based, -1 when absent
IndexOfKey(key) ==
  IF key \in EffectKeys
  THEN (CHOOSE i \in DOMAIN EFFECT_ORDER : EFFECT_ORDER[i] = key) - 1
  ELSE -1

\* rotateToNext: the key after currentKey in the order
RotateKey(key) == EFFECT_ORDER[((Max(0, IndexOfKey(key)) + 1) % Len(EFFECT_ORDER)) + 1]

\* new VideoPlaylist({ isMobile }): the fields the constructor sets
NewPlaylist(l) ==
  [list |-> l, videoEls |-> <<>>, activeIdx |-> 0, vidEl |-> NoEl,
   vidDim |-> DefaultDim, loaded |-> FALSE, maskData |-> NoMask,
   updateCounter |-> 0, mode |-> "playlist", customURL |-> 0,
   customStream |-> 0, els |-> <<>>, blobs |-> <<>>, streams |-> <<>>]

\* the effect classes whose constructor reads opts.playlist and sets
\* _ownsVideo; the others construct a playlist of their own in every setup
TakesPlaylist(key) == key \in {"video+threshold", "video+mosaic"}

\* EFFECTS[key]({ playlist: sharedPlaylist }); `shared` is whether
\* sharedPlaylist is non-null at that moment
make(key, shared) ==
  [key |-> key, ownsVideo |-> TakesPlaylist(key) /\ ~shared, own |-> FALSE,
   W |-> NewPlaylist(<<>>)]

\* effect.setup(p): this.video = new VideoPlaylist(...); this.video.init(...)
\* unless the effect was handed the shared playlist
EffectSetup(eff, l) ==
  IF TakesPlaylist(eff.key) /\ ~eff.ownsVideo THEN eff
  ELSE [eff EXCEPT !.own = TRUE, !.W = init(NewPlaylist(l))]

\* effect.dispose(): this.video?.dispose(), guarded by _ownsVideo in the
\* classes that have the flag
EffectDispose(eff) ==
  IF TakesPlaylist(eff.key) /\ ~eff.ownsVideo THEN eff
  ELSE IF eff.own THEN [eff EXCEPT !.W = dispose(@)] ELSE eff

\* if (p5Instance) { p5Instance.remove(); p5Instance = null; }
RemoveSketch(s, i) == IF i # 0 THEN [s EXCEPT ![i] = "removed"] ELSE s

\* switchEffect(key) for a key of EFFECTS: js/app.js disposes the outgoing
\* effect first, the build with the loader does not; both remove the p5
\* instance and defer boot(key)
switchEffect(key) ==
  /\ effects' = IF build = "js/app.js" /\ effects # <<>>
                THEN [effects EXCEPT ![Len(effects)] = EffectDispose(@)]
                ELSE effects
  /\ sketches' = RemoveSketch(sketches, p5Instance)
  /\ p5Instance' = 0
  /\ timers' = Append(timers, key)
  /\ switches' = switches + 1

\* a variant of startAutoRotate without its guard
startAutoRotate_always(timer, interacted) == TRUE

\* startAutoRotate: whether it calls setInterval
startAutoRotate(timer, interacted) == ~(timer \/ interacted)

\* stopAutoRotate: clearInterval of the recorded timer, if any
stopAutoRotate ==
  /\ intervals' = IF autoRotateTimer THEN intervals - 1 ELSE intervals
  /\ autoRotateTimer' = FALSE

\* boot(key): a new effect, a new p5 instance and its setup (which creates
\* the shared playlist the first time and starts the auto-rotation once)
boot(key) ==
  /\ currentKey' = key
  /\ effects' = Append(effects, EffectSetup(make(key, inited), list))
  /\ sketches' = Append(sketches, "live")
  /\ p5Instance' = Len(sketches) + 1
  /\ IF inited THEN UNCHANGED <<plVars, inited>>
     ELSE SetWorld(init(World)) /\ inited' = TRUE
  /\ autoRotateTimer' = (autoRotateTimer \/ startAutoRotate(autoRotateTimer, userInteracted))
  /\ intervals' = IF startAutoRotate(autoRotateTimer, userInteracted)
                  THEN intervals + 1 ELSE intervals
  /\ UNCHANGED <<userInteracted, switches, rotations, pending, ev, umHist, visits,
                 maskVars, notApp>>

Builds == {"js/app.js", "part_007"}

\* the boot() call that ends the module
StartApp ==
  /\ build = "none"
  /\ \E b \in Builds : build' = b
  /\ boot(currentKey)
  /\ UNCHANGED timers

\* a queued setTimeout(() => boot(key), 0) callback runs
BootTimer ==
  /\ timers # <<>>
  /\ boot(Head(timers))
  /\ timers' = Tail(timers)
  /\ UNCHANGED build

\* one handler of a dot (pointerdown, touchend or click): the dock exists
\* once the first setup has run
Trigger(key) ==
  /\ build # "none" /\ switches < MaxSwitches
  /\ userInteracted' = TRUE
  /\ stopAutoRotate
  /\ switchEffect(key)
  /\ UNCHANGED <<build, currentKey, rotations, plVars, obsVars, maskVars, notApp>>

\* the joystick reports a payload (mag in hundredths), or the preview is
\* tapped (active): the dock counts it as an interaction when
\* payload.active || payload.mag > 0.12
JoystickInputs == [active : BOOLEAN, mag : {0, 12, 13}]

Interact(payload) ==
  /\ build # "none"
  /\ IF payload.active \/ payload.mag > 12
     THEN userInteracted' = TRUE /\ stopAutoRotate
     ELSE UNCHANGED <<userInteracted, autoRotateTimer, intervals>>
  /\ UNCHANGED <<build, effects, sketches, p5Instance, currentKey, timers, switches,
                 rotations, plVars, obsVars, maskVars, notApp>>

\* a tick of the auto-rotate interval
RotateTick ==
  /\ intervals > 0 /\ switches < MaxSwitches
  /\ IF userInteracted
     THEN /\ stopAutoRotate
          /\ UNCHANGED <<effects, sketches, p5Instance, timers, switches, rotations>>
     ELSE /\ switchEffect(RotateKey(currentKey))
          /\ rotations' = rotations + 1
          /\ UNCHANGED <<autoRotateTimer, intervals>>
  /\ UNCHANGED <<build, currentKey, userInteracted, plVars, obsVars, maskVars, notApp>>

\* what the handlers of 'loadeddata' do on node e of playlist W
loadeddata(W, e) ==
  LET W0 == [W EXCEPT !.els[e].rs = "ready", !.els[e].frame = 0,
                      !.els[e].paused = IF W.els[e].autoplay THEN FALSE ELSE @]
      W1 == IF W.els[e].onFirstReady
            THEN onFirstReady([W0 EXCEPT !.els[e].onFirstReady = FALSE], e)
            ELSE W0
  IN  IF W1.els[e].onDims
      THEN [W1 EXCEPT !.els[e].onDims = FALSE,
                      !.vidDim = IF W1.vidEl # NoEl
                                 THEN VideoDim(W1.els[W1.vidEl]) ELSE @]
      ELSE W1

\* 'loadeddata' on the first node of the playlist effect i made for itself
OwnLoadedData(i) ==
  /\ effects[i].own
  /\ \E e \in DOMAIN effects[i].W.els :
       /\ effects[i].W.els[e].rs = "loading" /\ effects[i].W.els[e].media[1] = "demo"
       /\ effects[i].W.els[e].onFirstReady
       /\ effects' = [effects EXCEPT ![i].W = loadeddata(@, e)]
  /\ UNCHANGED <<build, sketches, p5Instance, currentKey, timers, autoRotateTimer,
                 userInteracted, switches, intervals, rotations, plVars, obsVars,
                 maskVars, notApp>>

NextApp ==
  \/ StartApp
  \/ BootTimer
  \/ \E key \in EffectKeys : Trigger(key)
  \/ RotateTick
  \/ \E payload \in JoystickInputs : Interact(payload)
  \/ \E i \in DOMAIN effects : OwnLoadedData(i)

SpecApp == Init /\ [][NextApp]_vars

(***************************************************************************)
(* SpecGrid: traildrip.js -- the occupancy grid and the drips of the       *)
(* poetry effect.  A frame is PoetrySilhouetteEffect.update (every drip,   *)
(* last to first: update(), then isDone() and splice) followed by draw     *)
(* (every drip).  The clock is kept as what it decides: how many steps an  *)
(* update takes and which segments of a finished drip have faded out.      *)
(***************************************************************************)
START_ROW_MIN == -8
MAX_SIZE == 9
MAX_STEPS_PER_UPDATE == 6
CLICK_SPAWN_COUNT == 2
CLICK_SCATTER_COLS == 1

\* the in-grid rows r0 .. r1 - 1 of a rectangle (Math.max(0, r), Math.min(rows, r + h))
RowSpan(g, r, h) == Max(0, r) .. (Min(Len(g), r + h) - 1)
InGrid(g, x, y) == y \in 0 .. (Len(g) - 1) /\ x \in 0 .. (Len(g[y + 1]) - 1)

\* a variant of canPlaceRect that tests the columns only
canPlaceRect_columnsOnly(g, cols, rows, c, r, w, h) == ~(c < 0 \/ c + w > cols)

canPlaceRect(g, cols, rows, c, r, w, h) ==
  IF c < 0 \/ c + w > cols THEN FALSE
  ELSE \A y \in Max(0, r) .. (Min(rows, r + h) - 1) : \A x \in c .. (c + w - 1) :
         g[y + 1][x + 1] = 0

\* placeRect writes id into the in-grid rows of the rectangle (its callers
\* pass columns inside the grid)
placeRect(g, id, c, r, w, h) ==
  [y \in DOMAIN g |-> [x \in DOMAIN g[y] |->
     IF (y - 1) \in RowSpan(g, r, h) /\ (x - 1) \in c .. (c + w - 1)
     THEN id ELSE g[y][x]]]

\* a variant of freeRectById that clears the rectangle whoever owns its cells
freeRectById_anyOwner(g, id, c, r, w, h) ==
  [y \in DOMAIN g |-> [x \in DOMAIN g[y] |->
     IF (y - 1) \in RowSpan(g, r, h) /\ (x - 1) \in c .. (c + w - 1)
     THEN 0 ELSE g[y][x]]]

freeRectById(g, id, c, r, w, h) ==
  [y \in DOMAIN g |-> [x \in DOMAIN g[y] |->
     IF (y - 1) \in RowSpan(g, r, h) /\ (x - 1) \in c .. (c + w - 1) /\ g[y][x] = id
     THEN 0 ELSE g[y][x]]]

\* videomosaic.js _canPlace on a grid of booleans (a cell is taken when it
\* is not 0)
_canPlace(g, cols, rows, c, r, w, h) ==
  IF c < 0 \/ r < 0 \/ c + w > cols \/ r + h > rows THEN FALSE
  ELSE \A y \in r .. (r + h - 1) : \A x \in c .. (c + w - 1) : g[y + 1][x + 1] = 0

\* main.js fits: no lower bound is tested; occ[r + y] is undefined for a
\* negative row (reading a cell of it throws), occ[r + y][c + x] is undefined
\* (not taken) for a negative column
fits(g, c, r, w, h, cols, rows) ==
  IF c + w > cols \/ r + h > rows THEN "false"
  ELSE IF r < 0 THEN "throw"
  ELSE IF \A y \in r .. (r + h - 1) : \A x \in Max(0, c) .. (c + w - 1) : g[y + 1][x + 1] = 0
       THEN "true" ELSE "false"

\* 1 + floor(eased * (MAX_SIZE - 1) + 1e-6) with eased = progress ^ 0.7 and
\* progress = bottomRow / rows clamped to [0, 1]: eased * 8 >= j exactly when
\* progress >= (j / 8) ^ (1 / 0.7); the thresholds in millionths, rounded up
GROWTH_STEPS == <<51271, 138012, 246306, 371499, 510976, 663004, 826332, 1000000>>

_sizeFromProgress(bottomRow, prevSize, cols, rows) ==
  LET k   == Min(Max(bottomRow, 0), rows)
      raw == 1 + Cardinality({j \in DOMAIN GROWTH_STEPS : k * 1000000 >= GROWTH_STEPS[j] * rows})
      s   == Max(prevSize, Min(prevSize + 1, raw))
  IN  IF k <= 0 THEN prevSize ELSE Min(Min(s, MAX_SIZE), Min(cols, rows))

\* the columns at which an s x s square whose top row is `row` touches prev
\* from below and can be placed
Columns(g, prev, row, s) ==
  {c \in Max(0, prev.c - (s - 1)) .. Min(GridCols - s, prev.c + prev.w - 1) :
     canPlaceRect(g, GridCols, GridRows, c, row, s, s)}

NewSeg(c, r, s) == [c |-> c, r |-> r, w |-> s, h |-> s, freed |-> FALSE]

\* _tryNextSegment: the largest size from the picked one down to 1 that has
\* a column, and any of its columns (ten random tries, then the first);
\* the empty set is null
_tryNextSegment(g, prev) ==
  LET top  == _sizeFromProgress(prev.r + prev.h, prev.w, GridCols, GridRows)
      row  == prev.r + prev.h
      Good == {s \in 1 .. top : Columns(g, prev, row, s) # {}}
  IN  IF Good = {} THEN {}
      ELSE LET s == CHOOSE b \in Good : \A o \in Good : o <= b
           IN  {NewSeg(c, row, s) : c \in Columns(g, prev, row, s)}

\* _finalBottomPlacement: the same search on the floor, from the largest size
_finalBottomPlacement(g, prev) ==
  LET top  == Min(MAX_SIZE, Min(GridCols, GridRows))
      Good == {s \in 1 .. top : Columns(g, prev, GridRows - s, s) # {}}
  IN  IF Good = {} THEN {}
      ELSE LET s == CHOOSE b \in Good : \A o \in Good : o <= b
           IN  {NewSeg(c, GridRows - s, s) : c \in Columns(g, prev, GridRows - s, s)}

\* what _stepOnce pushes: a next segment, a final segment (the drip is then
\* finished), or nothing (it retries later)
StepOutcomes(g, d) ==
  LET prev == d.segs[Len(d.segs)]
      nxt  == _tryNextSegment(g, prev)
      fin  == _finalBottomPlacement(g, prev)
      floor == nxt = {} \/ \E n \in nxt : n.r + n.h >= GridRows
  IN  IF floor
      THEN IF fin = {} THEN {[seg |-> NewSeg(0, 0, 0), kind |-> "wait"]}
           ELSE {[seg |-> f, kind |-> "final"] : f \in fin}
      ELSE {[seg |-> n, kind |-> "next"] : n \in nxt}

\* new TrailDrip(..., startCol, startRow, ...): the first segment is placed
\* where the clamped start cell is
TrailDrip(id, startCol, startRow) ==
  LET r0 == Max(START_ROW_MIN, Min(GridRows - 1, startRow))
      c0 == Max(0, Min(GridCols - 1, startCol))
  IN  [id |-> id, finished |-> FALSE, faded |-> 0, segs |-> <<NewSeg(c0, r0, 1)>>]

\* spawnDripsAtPointer: CLICK_SPAWN_COUNT drips around the pointer's cell,
\* one row above it
RECURSIVE SpawnDrips(_, _, _, _)
SpawnDrips(G, baseCol, baseRow, scatter) ==
  IF scatter = <<>> THEN G
  ELSE LET c   == Max(0, Min(GridCols - 1, baseCol + Head(scatter)))
           d   == TrailDrip(G.nextId, c, baseRow)
           seg == d.segs[1]
           G1  == [occ |-> placeRect(G.occ, d.id, seg.c, seg.r, 1, 1),
                   drips |-> Append(G.drips, d),
                   nextId |-> G.nextId + 1,
                   lastPlace |-> [id |-> d.id,
                                  free |-> G.lastPlace.free /\
                                    canPlaceRect(G.occ, GridCols, GridRows, seg.c, seg.r, 1, 1)]]
       IN  SpawnDrips(G1, baseCol, baseRow, Tail(scatter))

Scatter == (0 - CLICK_SCATTER_COLS) .. CLICK_SCATTER_COLS

\* 'pointerdown' / 'touchstart' on the canvas with the pointer inside it
PointerDown ==
  /\ gpc.phase = "idle"
  /\ nextId - 1 + CLICK_SPAWN_COUNT <= MaxDrips
  /\ \E baseCol \in 0 .. (GridCols - 1) : \E baseRow \in (0 - 1) .. (GridRows - 1) :
     \E scatter \in [1 .. CLICK_SPAWN_COUNT -> Scatter] :
       LET G == SpawnDrips([occ |-> occ, drips |-> drips, nextId |-> nextId,
                            lastPlace |-> [lastPlace EXCEPT !.free = TRUE]],
                           baseCol, baseRow, scatter)
       IN  /\ occ' = G.occ /\ drips' = G.drips /\ nextId' = G.nextId
           /\ lastPlace' = G.lastPlace
  /\ UNCHANGED <<gpc, maskVars, plVars, obsVars, notGrid>>

\* time passes between two frames: of a finished drip the final segment
\* fades out first (finishAt + FINAL_FADE_DELAY_MS + FINAL_FADE_MS), then the
\* others from the newest to the oldest (finishAt + (finishAt - born) *
\* SEGMENT_FADE_DELAY_FACTOR + SEGMENT_FADE_MS, which is later for an older
\* segment and later than the final one's); d.faded counts them
Elapse(i) ==
  /\ gpc.phase = "idle"
  /\ drips[i].finished /\ drips[i].faded < Len(drips[i].segs)
  /\ \E n \in (drips[i].faded + 1) .. Len(drips[i].segs) :
       drips' = [drips EXCEPT ![i].faded = n]
  /\ UNCHANGED <<occ, nextId, lastPlace, gpc, maskVars, plVars, obsVars, notGrid>>

\* p.draw starts: effect.update begins with the last drip
FrameBegin ==
  /\ gpc.phase = "idle"
  /\ gpc' = [phase |-> "update", i |-> Len(drips), safety |-> MAX_STEPS_PER_UPDATE]
  /\ UNCHANGED <<occ, drips, nextId, lastPlace, maskVars, plVars, obsVars, notGrid>>

\* one iteration of the while loop of TrailDrip.update: _stepOnce
DripStepOnce ==
  /\ gpc.phase = "update" /\ gpc.i >= 1 /\ gpc.safety > 0
  /\ ~drips[gpc.i].finished
  /\ \E o \in StepOutcomes(occ, drips[gpc.i]) :
       LET d == drips[gpc.i]
       IN  IF o.kind = "wait"
           THEN UNCHANGED <<occ, drips, lastPlace>>
           ELSE /\ occ' = placeRect(occ, d.id, o.seg.c, o.seg.r, o.seg.w, o.seg.h)
                /\ drips' = [drips EXCEPT ![gpc.i].segs = Append(@, o.seg),
                                          ![gpc.i].finished = (o.kind = "final")]
                /\ lastPlace' = [id |-> d.id,
                                 free |-> canPlaceRect(occ, GridCols, GridRows,
                                            o.seg.c, o.seg.r, o.seg.w, o.seg.h)]
  /\ gpc' = [gpc EXCEPT !.safety = @ - 1]
  /\ UNCHANGED <<nextId, maskVars, plVars, obsVars, notGrid>>

\* every segment of a finished drip has faded out
isDone(d) == d.finished /\ d.faded = Len(d.segs)

\* the while loop of update is over; if (d.isDone()) this.drips.splice(i, 1)
DripUpdateEnd ==
  /\ gpc.phase = "update" /\ gpc.i >= 1
  /\ drips' = IF isDone(drips[gpc.i]) THEN RemoveAt(drips, gpc.i) ELSE drips
  /\ gpc' = [gpc EXCEPT !.i = @ - 1, !.safety = MAX_STEPS_PER_UPDATE]
  /\ UNCHANGED <<occ, nextId, lastPlace, maskVars, plVars, obsVars, notGrid>>

\* TrailDrip.draw: a segment of a finished drip whose alpha reached 0 is
\* freed once
RECURSIVE DrawDrip(_, _, _)
DrawDrip(G, i, k) ==
  LET d == G.drips[i]
  IN  IF k > Len(d.segs) THEN G
      ELSE IF d.finished /\ k > Len(d.segs) - d.faded /\ ~d.segs[k].freed
           THEN LET s == d.segs[k]
                IN  DrawDrip([occ |-> freeRectById(G.occ, d.id, s.c, s.r, s.w, s.h),
                              drips |-> [G.drips EXCEPT ![i].segs[k].freed = TRUE]],
                             i, k + 1)
           ELSE DrawDrip(G, i, k + 1)

RECURSIVE DrawAll(_, _)
DrawAll(G, i) ==
  IF i > Len(G.drips) THEN G ELSE DrawAll(DrawDrip(G, i, 1), i + 1)

\* effect.draw: for (const d of this.drips) d.draw(); the frame is over
FrameDraw ==
  /\ gpc.phase = "update" /\ gpc.i = 0
  /\ LET G == DrawAll([occ |-> occ, drips |-> drips], 1)
     IN  occ' = G.occ /\ drips' = G.drips
  /\ gpc' = GridIdle
  /\ UNCHANGED <<nextId, lastPlace, maskVars, plVars, obsVars, notGrid>>

NextGrid ==
  \/ PointerDown
  \/ \E i \in DOMAIN drips : Elapse(i)
  \/ FrameBegin
  \/ DripStepOnce
  \/ DripUpdateEnd
  \/ FrameDraw

SpecGrid == Init /\ [][NextGrid]_vars

\* SpecGrid with the draw loop running and the clock advancing: frames keep
\* coming, every unfinished drip gets its step when due, and the fade of
\* every finished drip runs out
SpecGridLive ==
  /\ SpecGrid
  /\ WF_vars(FrameBegin) /\ WF_vars(DripUpdateEnd) /\ WF_vars(FrameDraw)
  /\ \A k \in 1 .. MaxDrips : SF_vars(DripStepOnce /\ gpc.i = k)
  /\ \A k \in 1 .. MaxDrips : SF_vars(k \in DOMAIN drips /\ Elapse(k))

(***************************************************************************)
(* SpecRect: the rectangle helpers called on their own.  Owners 1 and 2    *)
(* place and free rectangles on a small grid, and canPlaceRect, _canPlace  *)
(* and fits are asked about rectangles that may reach beyond it.           *)
(***************************************************************************)
Owners == {1, 2}

\* the rectangles passed: one or two cells a side, starting at most one cell
\* outside the grid, so that they may reach beyond it on any side
Rects ==
  {[c |-> c, r |-> r, w |-> w, h |-> h] :
     c \in (0 - 1) .. (RectCols - 1), r \in (0 - 1) .. (RectRows - 1),
     w \in 1 .. 2, h \in 1 .. 2}

\* placeRect(id, c, r, w, h) with the columns inside the grid, as every
\* caller passes them
PlaceCall(id, q) ==
  /\ rq.op = "none"
  /\ q.c >= 0 /\ q.c + q.w <= RectCols
  /\ board' = placeRect(board, id, q.c, q.r, q.w, q.h)
  /\ UNCHANGED <<rq, maskVars, plVars, obsVars, notRect>>

\* freeRectById(id, c, r, w, h)
FreeCall(id, q) ==
  /\ rq.op = "none"
  /\ board' = freeRectById(board, id, q.c, q.r, q.w, q.h)
  /\ rq' = [NoCall EXCEPT !.op = "free", !.id = id, !.q = q, !.pre = board]
  /\ UNCHANGED <<maskVars, plVars, obsVars, notRect>>

\* canPlaceRect, _canPlace and fits asked about the same rectangle
AskCall(q) ==
  /\ rq.op = "none"
  /\ rq' = [NoCall EXCEPT !.op = "ask", !.q = q,
              !.can = canPlaceRect(board, RectCols, RectRows, q.c, q.r, q.w, q.h),
              !.strict = _canPlace(board, RectCols, RectRows, q.c, q.r, q.w, q.h),
              !.fits = fits(board, q.c, q.r, q.w, q.h, RectCols, RectRows)]
  /\ UNCHANGED <<board, maskVars, plVars, obsVars, notRect>>

\* the caller has used the answer
ReturnCall ==
  /\ rq.op # "none"
  /\ rq' = NoCall
  /\ UNCHANGED <<board, maskVars, plVars, obsVars, notRect>>

NextRect ==
  \/ \E id \in Owners : \E q \in Rects : PlaceCall(id, q)
  \/ \E id \in Owners : \E q \in Rects : FreeCall(id, q)
  \/ \E q \in Rects : AskCall(q)
  \/ ReturnCall

SpecRect == Init /\ [][NextRect]_vars

(***************************************************************************)
(* SpecTiles: main.js -- the bento grid.  buildBentoInto tiles the grid,   *)
(* handleHover shrinks the tiles under the cursor to one cell and lets the *)
(* neighbours grow into the cells that became empty.                       *)
(***************************************************************************)
TileCols == 2
TileRows == 2
MAX_ITERS == 5

\* SHAPES_WEIGHTED without the weights
SHAPES == {<<5, 1>>, <<1, 5>>, <<4, 1>>, <<1, 4>>, <<3, 1>>, <<1, 3>>,
           <<2, 1>>, <<1, 2>>, <<2, 2>>, <<1, 1>>}

NewTile(c, r, w, h) == [c |-> c, r |-> r, w |-> w, h |-> h]
TileCells(t) == {<<x, y>> : x \in t.c .. (t.c + t.w - 1), y \in t.r .. (t.r + t.h - 1)}

\* mark(occ, c, r, w, h): the cells of the rectangle are taken (1)
mark(g, c, r, w, h) ==
  [y \in DOMAIN g |-> [x \in DOMAIN g[y] |->
     IF <<x - 1, y - 1>> \in TileCells(NewTile(c, r, w, h)) THEN 1 ELSE g[y][x]]]

\* buildBentoInto: the cells in row-major order; a free cell gets one of
\* the drawn shapes that fits there (1 x 1 if none does); k is the cell
\* reached, g the cells taken, ts the tiles made
RECURSIVE Bento(_, _, _)
Bento(k, g, ts) ==
  IF k = TileCols * TileRows THEN {ts}
  ELSE LET c == k % TileCols
           r == k \div TileCols
       IN  IF g[r + 1][c + 1] # 0 THEN Bento(k + 1, g, ts)
           ELSE UNION {Bento(k + 1, mark(g, c, r, sh[1], sh[2]),
                             Append(ts, NewTile(c, r, sh[1], sh[2]))) :
                         sh \in {q \in SHAPES :
                                   fits(g, c, r, q[1], q[2], TileCols, TileRows) = "true"}}

\* buildOccMap: every cell holds the last tile whose rectangle covers it
buildOccMap(ts) ==
  [y \in 1 .. TileRows |-> [x \in 1 .. TileCols |->
     LET I == {i \in DOMAIN ts : <<x - 1, y - 1>> \in TileCells(ts[i])}
     IN  IF I = {} THEN 0 ELSE CHOOSE i \in I : \A j \in I : j <= i]]

\* cellsInRadius in row-major order; the cursor (cx2 / 2, cy2 / 2) and the
\* squared radius rr4 / 4 are given in half cells
InRadius(gx, gy, cx2, cy2, rr4) ==
  (2 * gx + 1 - cx2) * (2 * gx + 1 - cx2) + (2 * gy + 1 - cy2) * (2 * gy + 1 - cy2) <= rr4

RECURSIVE cellsInRadius(_, _, _, _)
cellsInRadius(k, cx2, cy2, rr4) ==
  IF k = TileCols * TileRows THEN <<>>
  ELSE LET gx == k % TileCols
           gy == k \div TileCols
           rest == cellsInRadius(k + 1, cx2, cy2, rr4)
       IN  IF InRadius(gx, gy, cx2, cy2, rr4) THEN <<(<<gx, gy>>)>> \o rest ELSE rest

Range(seq) == {seq[i] : i \in DOMAIN seq}

intersectsRegion(t, region) == TileCells(t) \cap Range(region) # {}

\* squarifyTileToward: the tile keeps its cell closest to the cursor (the
\* first such cell, rows first), every cell of its old rectangle is nulled
Dist4(p, cx2, cy2) ==
  (2 * p[1] + 1 - cx2) * (2 * p[1] + 1 - cx2) + (2 * p[2] + 1 - cy2) * (2 * p[2] + 1 - cy2)

Before(p, q) == p[2] < q[2] \/ (p[2] = q[2] /\ p[1] < q[1])

squarifyTileToward(S, t, cx2, cy2) ==
  LET tile == S.tiles[t]
      keep == CHOOSE p \in TileCells(tile) : \A q \in TileCells(tile) :
                \/ Dist4(p, cx2, cy2) < Dist4(q, cx2, cy2)
                \/ Dist4(p, cx2, cy2) = Dist4(q, cx2, cy2) /\ (p = q \/ Before(p, q))
      g1   == [y \in DOMAIN S.occ |-> [x \in DOMAIN S.occ[y] |->
                IF <<x - 1, y - 1>> = keep THEN t
                ELSE IF <<x - 1, y - 1>> \in TileCells(tile) THEN 0 ELSE S.occ[y][x]]]
  IN  [S EXCEPT !.occ = g1, !.tiles[t] = NewTile(keep[1], keep[2], 1, 1)]

\* the rectangle extendTileInto records for the tile when (tx, ty) is next to
\* its left, right, top or bottom side (tried in that order), else the same
ExtendedTile(tile, tx, ty) ==
  IF tx = tile.c - 1 /\ ty >= tile.r /\ ty < tile.r + tile.h
  THEN [tile EXCEPT !.c = @ - 1, !.w = @ + 1]
  ELSE IF tx = tile.c + tile.w /\ ty >= tile.r /\ ty < tile.r + tile.h
  THEN [tile EXCEPT !.w = @ + 1]
  ELSE IF ty = tile.r - 1 /\ tx >= tile.c /\ tx < tile.c + tile.w
  THEN [tile EXCEPT !.r = @ - 1, !.h = @ + 1]
  ELSE IF ty = tile.r + tile.h /\ tx >= tile.c /\ tx < tile.c + tile.w
  THEN [tile EXCEPT !.h = @ + 1]
  ELSE tile

\* extendTileInto(tile, tx, ty, occ): the state after the call, with the call
\* (its arguments, what it returned, the tile and the grid before and after)
\* added to S.calls
extendTileInto(S, t, tx, ty) ==
  LET tile  == S.tiles[t]
      inG   == ~(tx < 0 \/ ty < 0 \/ tx >= TileCols \/ ty >= TileRows)
      empty == inG /\ S.occ[ty + 1][tx + 1] = 0
      grown == ExtendedTile(tile, tx, ty)
      ret   == empty /\ grown # tile
      g1    == [y \in DOMAIN S.occ |-> [x \in DOMAIN S.occ[y] |->
                 IF <<x - 1, y - 1>> = <<tx, ty>> THEN t ELSE S.occ[y][x]]]
      S1    == IF ret THEN [S EXCEPT !.occ = g1, !.tiles[t] = grown] ELSE S
  IN  [S1 EXCEPT !.ret = ret,
                 !.calls = @ \cup {[tx |-> tx, ty |-> ty, ret |-> ret,
                                    pre |-> tile, post |-> S1.tiles[t],
                                    occPre |-> S.occ, occPost |-> S1.occ]}]

\* the neighbours of an empty cell in the order left, right, top, bottom,
\* each tile once
Neighbours(S, ex, ey) ==
  LET l == IF ex > 0 /\ S.occ[ey + 1][ex] # 0 THEN <<S.occ[ey + 1][ex]>> ELSE <<>>
      r == IF ex < TileCols - 1 /\ S.occ[ey + 1][ex + 2] # 0
           THEN <<S.occ[ey + 1][ex + 2]>> ELSE <<>>
      u == IF ey > 0 /\ S.occ[ey][ex + 1] # 0 THEN <<S.occ[ey][ex + 1]>> ELSE <<>>
      d == IF ey < TileRows - 1 /\ S.occ[ey + 2][ex + 1] # 0
           THEN <<S.occ[ey + 2][ex + 1]>> ELSE <<>>
      all == l \o r \o u \o d
  IN  SelectSeq([i \in DOMAIN all |-> IF \E j \in 1 .. (i - 1) : all[j] = all[i] THEN 0 ELSE all[i]],
                LAMBDA n : n # 0)

\* the first neighbour that can be extended into (ex, ey) is
RECURSIVE TryNeighbours(_, _, _, _)
TryNeighbours(S, nbs, ex, ey) ==
  IF nbs = <<>> THEN [S EXCEPT !.ret = FALSE]
  ELSE LET S1 == extendTileInto(S, Head(nbs), ex, ey)
       IN  IF S1.ret THEN S1 ELSE TryNeighbours(S1, Tail(nbs), ex, ey)

\* growthPass over the cells that were empty when the pass began
RECURSIVE GrowInto(_, _)
GrowInto(S, empties) ==
  IF empties = <<>> THEN S
  ELSE LET e  == Head(empties)
           S1 == TryNeighbours(S, Neighbours(S, e[1], e[2]), e[1], e[2])
       IN  GrowInto([S1 EXCEPT !.grew = S.grew + (IF S1.ret THEN 1 ELSE 0)], Tail(empties))

growthPass(S, region) ==
  GrowInto([S EXCEPT !.grew = 0],
           SelectSeq(region, LAMBDA p : S.occ[p[2] + 1][p[1] + 1] = 0))

\* for (let it = 0; it < MAX_ITERS; it++) { if (!growthPass(...)) break; }
RECURSIVE GrowthLoop(_, _, _)
GrowthLoop(S, region, it) ==
  IF it >= MAX_ITERS THEN S
  ELSE LET S1 == growthPass(S, region)
       IN  IF S1.grew = 0 THEN S1 ELSE GrowthLoop(S1, region, it + 1)

RECURSIVE SquarifyAll(_, _, _, _, _)
SquarifyAll(S, t, region, cx2, cy2) ==
  IF t > Len(S.tiles) THEN S
  ELSE SquarifyAll(IF intersectsRegion(S.tiles[t], region)
                   THEN squarifyTileToward(S, t, cx2, cy2) ELSE S,
                   t + 1, region, cx2, cy2)

\* handleHover up to the growth loop (the letters and the delayed final fill,
\* which makes the same growthPass calls, are left out)
handleHover(ts, cx2, cy2, rr4) ==
  LET region == cellsInRadius(0, cx2, cy2, rr4)
      S0 == [tiles |-> ts, occ |-> buildOccMap(ts), calls |-> {}, ret |-> FALSE, grew |-> 0]
  IN  IF region = <<>> THEN S0
      ELSE GrowthLoop(SquarifyAll(S0, 1, region, cx2, cy2), region, 0)

\* boot, or a click on the grid: a full rebuild
BuildBento ==
  /\ \E ts \in Bento(0, resetOccupancy(TileCols, TileRows), <<>>) : tiles' = ts
  /\ tcalls' = {}
  /\ UNCHANGED <<maskVars, plVars, obsVars, notTile>>

\* the squared radii of the hover circle, in quarter cells
HoverRadii4 == {1, 2, 5}

\* 'mousemove' on the grid
Hover ==
  /\ tiles # <<>>
  /\ \E cx2 \in 0 .. (2 * TileCols) : \E cy2 \in 0 .. (2 * TileRows) : \E rr4 \in HoverRadii4 :
       LET S == handleHover(tiles, cx2, cy2, rr4)
       IN  tiles' = S.tiles /\ tcalls' = S.calls
  /\ UNCHANGED <<maskVars, plVars, obsVars, notTile>>

NextTiles == BuildBento \/ Hover

SpecTiles == Init /\ [][NextTiles]_vars

(***************************************************************************)
(* SpecEnvelope: the finite events of VideoThresholdEffect.  Times are in  *)
(* hundredths of a second; an envelope value is a fraction n / d, d > 0.   *)
(***************************************************************************)
MaxNow == 95
MaxBursts == 2

HOLE_RADIUS_BASE == 150
GROW_TIME == 10
HOLD_TIME == 25
DECAY_TIME == 60
MAX_RIPPLES == 14
CUT_GROW == 7
CUT_HOLD == 20
CUT_DECAY == 55
CUT_BAND_BASE == 44
MAX_CUTS == 14

Frac(n, d) == [n |-> n, d |-> d]

\* _smoothstep(a / b), b > 0
_smoothstep(a, b) ==
  IF a <= 0 THEN Frac(0, 1)
  ELSE IF a >= b THEN Frac(1, 1)
  ELSE Frac(a * a * (3 * b - 2 * a), b * b * b)

\* a variant of _rippleRadius whose decay branch still answers at d = DECAY_TIME
_rippleRadius_lateEnd(nw, rp) ==
  LET age == Max(0, nw - rp.t0)
      d   == age - (GROW_TIME + HOLD_TIME)
  IN  IF age < GROW_TIME
      THEN LET t == _smoothstep(age, GROW_TIME) IN Frac(rp.radius * t.n, t.d)
      ELSE IF age < GROW_TIME + HOLD_TIME THEN Frac(rp.radius, 1)
      ELSE IF d <= DECAY_TIME
      THEN LET t == _smoothstep(d, DECAY_TIME) IN Frac(rp.radius * (t.d - t.n), t.d)
      ELSE Frac(-1, 1)

_rippleRadius(nw, rp) ==
  LET age == Max(0, nw - rp.t0)
      d   == age - (GROW_TIME + HOLD_TIME)
  IN  IF age < GROW_TIME
      THEN LET t == _smoothstep(age, GROW_TIME) IN Frac(rp.radius * t.n, t.d)
      ELSE IF age < GROW_TIME + HOLD_TIME THEN Frac(rp.radius, 1)
      ELSE IF d < DECAY_TIME
      THEN LET t == _smoothstep(d, DECAY_TIME) IN Frac(rp.radius * (t.d - t.n), t.d)
      ELSE Frac(-1, 1)

\* cut.band * (0.35 + 0.65 * t), in twentieths
_cutBand(nw, cut) ==
  LET age == Max(0, nw - cut.t0)
      d   == age - (CUT_GROW + CUT_HOLD)
  IN  IF age < CUT_GROW
      THEN LET t == _smoothstep(age, CUT_GROW)
           IN  Frac(cut.band * (7 * t.d + 13 * t.n), 20 * t.d)
      ELSE IF age < CUT_GROW + CUT_HOLD THEN Frac(cut.band, 1)
      ELSE IF d < CUT_DECAY
      THEN LET t == _smoothstep(d, CUT_DECAY)
           IN  Frac(cut.band * (7 * t.d + 13 * (t.d - t.n)), 20 * t.d)
      ELSE Frac(-1, 1)

\* a variant of the filter test of update that also drops a value of zero
Unfinished_positive(v) == v.n > 0

\* the filter test of update: envelope >= 0
Unfinished(v) == v.n >= 0

Copies(n, e) == [i \in 1 .. n |-> e]

\* _spawnRipple / _spawnCut called n times: push, then shift while over the cap
Spawned(seq, n, e, cap) == LastN(seq \o Copies(n, e), cap)

\* the joystick position drawn: |y| = 1 gives 4 holes of radius 240 per
\* tick, |x| = 1/2 gives 2 cuts of band 88 per tick
HoleInputs == {[per |-> 4, radius |-> 240]}
CutInputs == {[per |-> 2, band |-> 88]}
\* the turns of the while loops of update (the clock can hold several periods
\* after the rate went up)
ClockTicks == {0, 4}

\* the instants at which a handler runs: those that put an event born at 0
\* or at 3 on the borders of its grow, hold and decay phases
Instants == {0, 3, 10, 30, 35, 85, 95}

\* time passes between the handlers
Tick(t) ==
  /\ t > now /\ t <= MaxNow
  /\ now' = t
  /\ fr' = NoFrame
  /\ UNCHANGED <<ripples, cuts, bursts>>
  /\ UNCHANGED <<maskVars, plVars, obsVars, notEnv>>

\* onClick: a ripple of the base radius at the pointer
Click ==
  /\ bursts < MaxBursts
  /\ ripples' = Spawned(ripples, 1, [t0 |-> now, radius |-> HOLE_RADIUS_BASE], MAX_RIPPLES)
  /\ bursts' = bursts + 1
  /\ fr' = NoFrame
  /\ UNCHANGED <<now, cuts>>
  /\ UNCHANGED <<maskVars, plVars, obsVars, notEnv>>

\* one frame: update (prune, then the joystick spawns hk turns of holes and
\* ck turns of cuts), then draw, which asks the envelope of what is left
Frame(hk, hole, ck, cut) ==
  LET valR  == [i \in DOMAIN ripples |-> _rippleRadius(now, ripples[i])]
      valC  == [i \in DOMAIN cuts |-> _cutBand(now, cuts[i])]
      keptR == SelectSeq(ripples, LAMBDA rp : Unfinished(_rippleRadius(now, rp)))
      keptC == SelectSeq(cuts, LAMBDA ct : Unfinished(_cutBand(now, ct)))
      newR  == Spawned(keptR, hk * hole.per, [t0 |-> now, radius |-> hole.radius], MAX_RIPPLES)
      newC  == Spawned(keptC, ck * cut.per, [t0 |-> now, band |-> cut.band], MAX_CUTS)
  IN  /\ hk + ck > 0 => bursts < MaxBursts
      /\ ripples' = newR
      /\ cuts' = newC
      /\ bursts' = bursts + (IF hk + ck > 0 THEN 1 ELSE 0)
      /\ fr' = [done |-> TRUE, at |-> now, preR |-> ripples, preC |-> cuts,
                valR |-> valR, valC |-> valC, nR |-> hk * hole.per, nC |-> ck * cut.per,
                drawR |-> [i \in DOMAIN newR |-> _rippleRadius(now, newR[i])],
                drawC |-> [i \in DOMAIN newC |-> _cutBand(now, newC[i])]]
      /\ UNCHANGED now
      /\ UNCHANGED <<maskVars, plVars, obsVars, notEnv>>

NextEnvelope ==
  \/ \E t \in Instants : Tick(t)
  \/ Click
  \/ \E hk \in ClockTicks : \E hole \in HoleInputs : \E ck \in ClockTicks : \E cut \in CutInputs :
       Frame(hk, hole, ck, cut)

SpecEnvelope == Init /\ [][NextEnvelope]_vars

(***************************************************************************)
(* SpecCaps: the capped lists.  One effect runs at a time: the threshold   *)
(* effect with its ripples and cuts (the actions of SpecEnvelope), or      *)
(* VideoConnectedParticlesEffect with its floaters and colour ripples.     *)
(* The particles' clock is in whole seconds.                               *)
(***************************************************************************)
MaxSec == 6
MaxPresses == 2

floaterCount == 160
PART_MAX_RIPPLES == 6
RIPPLE_SPEED == 600
SPAWN_ON_CLICK_COUNT == 20
FLOATER_LIFETIME_SEC == 5
FLOATER_MAX == 300
ROW_LIFE_SEC == 3

\* the canvas of the run
Canvas == [w |-> 1120, h |-> 560]

\* new Floater(..., bornSec, lifeSec); perm stands for lifeSec = Infinity
Floater(bornSec, lifeSec) == [born |-> bornSec, life |-> lifeSec, perm |-> FALSE]
PermFloater(bornSec) == [born |-> bornSec, life |-> 0, perm |-> TRUE]

isExpired(f, nowSec) == (nowSec - f.born) > f.life

\* a variant of _cullFloaters that takes the extra entries from the front of
\* the whole list
_cullFloaters_front(fs, nowSec, removeExtra) ==
  LET keep == SelectSeq(fs, LAMBDA f : ~(~f.perm /\ isExpired(f, nowSec)))
  IN  IF removeExtra > 0
      THEN SubSeq(keep, Min(removeExtra, Len(keep)) + 1, Len(keep))
      ELSE keep

\* _cullFloaters: the expired go; then removeExtra temporary ones, oldest
\* first, and the permanent ones move to the front
_cullFloaters(fs, nowSec, removeExtra) ==
  LET keep == SelectSeq(fs, LAMBDA f : ~(~f.perm /\ isExpired(f, nowSec)))
      perm == SelectSeq(keep, LAMBDA f : f.perm)
      temp == SelectSeq(keep, LAMBDA f : ~f.perm)
  IN  IF removeExtra > 0
      THEN perm \o SubSeq(temp, Min(removeExtra, Len(temp)) + 1, Len(temp))
      ELSE keep

\* push n floaters, then enforce the cap (spawnFloatersAt, _spawnRowFromEdge)
PushAndCap(fs, n, f, nowSec) ==
  LET all == fs \o Copies(n, f)
  IN  IF Len(all) > FLOATER_MAX
      THEN _cullFloaters(all, nowSec, Len(all) - FLOATER_MAX)
      ELSE all

spawnFloatersAt(fs, nowSec) ==
  PushAndCap(fs, SPAWN_ON_CLICK_COUNT, Floater(nowSec, FLOATER_LIFETIME_SEC), nowSec)

CeilDiv(a, b) == (a + b - 1) \div b

\* for (i = 0; i <= Math.ceil(extent / spacing); i++) push
RowCount(side, spacing) ==
  (IF side \in {"left", "right"} THEN CeilDiv(Canvas.h, spacing)
   ELSE CeilDiv(Canvas.w, spacing)) + 1

_spawnRowFromEdge(fs, side, nowSec, spacing) ==
  PushAndCap(fs, RowCount(side, spacing), Floater(nowSec, ROW_LIFE_SEC), nowSec)

\* the while loop of update: k rows; S.fs the list, S.peak its greatest
\* length after a spawn
RECURSIVE SpawnRows(_, _, _, _, _)
SpawnRows(S, k, side, nowSec, spacing) ==
  IF k = 0 THEN S
  ELSE LET fs1 == _spawnRowFromEdge(S.fs, side, nowSec, spacing)
       IN  SpawnRows([fs |-> fs1, peak |-> Max(S.peak, Len(fs1))], k - 1, side, nowSec, spacing)

\* draw: (nowSec - rp.t0) * RIPPLE_SPEED < Math.hypot(width, height) + 200
RippleShown(t0, nowSec) ==
  LET lhs == (nowSec - t0) * RIPPLE_SPEED - 200
  IN  lhs <= 0 \/ lhs * lhs < Canvas.w * Canvas.w + Canvas.h * Canvas.h

\* app.js boots one of the two effects; setup of the particles effect seeds
\* the permanent floaters (0.7 of them on a narrow window)
BootEffect(key, isMobile) ==
  /\ running = "none"
  /\ running' = key
  /\ floaters' = IF key = "particles"
                 THEN Copies(IF isMobile THEN (floaterCount * 7) \div 10 ELSE floaterCount,
                             PermFloater(pnow))
                 ELSE floaters
  /\ UNCHANGED <<pnow, pripples, presses, pobs>>
  /\ UNCHANGED <<maskVars, plVars, obsVars, notPart>>

PartTick ==
  /\ running = "particles"
  /\ pnow < MaxSec
  /\ pnow' = pnow + 1
  /\ pobs' = NoSpawn
  /\ UNCHANGED <<running, floaters, pripples, presses>>
  /\ UNCHANGED <<maskVars, plVars, obsVars, notPart>>

\* onPress: a colour ripple and a burst of floaters
onPress ==
  /\ running = "particles"
  /\ presses < MaxPresses
  /\ presses' = presses + 1
  /\ pripples' = LastN(Append(pripples, pnow), PART_MAX_RIPPLES)
  /\ floaters' = spawnFloatersAt(floaters, pnow)
  /\ pobs' = [done |-> TRUE, at |-> pnow, pre |-> floaters, n |-> SPAWN_ON_CLICK_COUNT,
              peak |-> Len(floaters')]
  /\ UNCHANGED <<running, pnow>>
  /\ UNCHANGED <<maskVars, plVars, obsVars, notPart>>

\* the row spawns drawn: the turns of the while loop, the edge, and the
\* spacing (28 at a quarter deflection)
RowInputs == {[k |-> 0, side |-> "top", spacing |-> 28],
              [k |-> 2, side |-> "left", spacing |-> 28],
              [k |-> 4, side |-> "top", spacing |-> 28]}

\* one frame of the particles effect: update (row spawns, cull), then draw
\* (which culls the colour ripples)
PartFrame(row) ==
  LET S == SpawnRows([fs |-> floaters, peak |-> 0], row.k, row.side, pnow, row.spacing)
  IN  /\ running = "particles"
      /\ row.k > 0 => presses < MaxPresses
      /\ presses' = presses + (IF row.k > 0 THEN 1 ELSE 0)
      /\ floaters' = _cullFloaters(S.fs, pnow, Max(0, Len(S.fs) - FLOATER_MAX))
      /\ pripples' = SelectSeq(pripples, LAMBDA t0 : RippleShown(t0, pnow))
      /\ pobs' = [done |-> TRUE, at |-> pnow, pre |-> floaters,
                  n |-> row.k * RowCount(row.side, row.spacing), peak |-> S.peak]
      /\ UNCHANGED <<running, pnow>>
      /\ UNCHANGED <<maskVars, plVars, obsVars, notPart>>

NextParticles ==
  \/ PartTick
  \/ onPress
  \/ \E row \in RowInputs : PartFrame(row)

NextCaps ==
  \/ \E key \in {"threshold", "particles"} : \E isMobile \in BOOLEAN : BootEffect(key, isMobile)
  \/ running = "threshold" /\ NextEnvelope
  \/ NextParticles

SpecCaps == Init /\ [][NextCaps]_vars

(***************************************************************************)
(* SpecFade: the trail compositor of AsciiLayer on one pixel of the        *)
(* accumulation buffer, in exact arithmetic.  Times are in tenths of a     *)
(* millisecond (a 16.7 ms frame is 167), strengths in thousandths.         *)
(***************************************************************************)
MaxFrames == 3

_autoClearMs == 35000

\* the mark a frame stamps at full alpha
Fresh == [has |-> TRUE, e |-> 0, fills |-> <<>>]

\* setDirectionalFade: strength clamped to [0, 1]
setDirectionalFade(strength) == Max(0, Min(1000, strength))

\* insert k into the sorted sequence of fill fractions
RECURSIVE SortedInsert(_, _)
SortedInsert(seq, k) ==
  IF seq = <<>> THEN <<k>>
  ELSE IF k <= Head(seq) THEN <<k>> \o seq
  ELSE <<Head(seq)>> \o SortedInsert(Tail(seq), k)

\* fadeDirectional(deltaMs) on one pixel: the taps multiply what is in the
\* accumulation by decayAlpha = perMs ^ deltaMs altogether; the frame is
\* stamped on top; with strength <= 0.001 a background rectangle of alpha
\* k = min(1, deltaMs / _autoClearMs) is drawn over it
fadeDirectional(px, deltaMs, strength, marked) ==
  LET decayed == IF px.has THEN [px EXCEPT !.e = @ + deltaMs] ELSE px
      stamped == IF marked THEN Fresh ELSE decayed
      k       == Min(_autoClearMs, deltaMs)
  IN  IF strength <= 1 /\ _autoClearMs > 0 /\ stamped.has
      THEN IF k = _autoClearMs THEN Cleared
           ELSE [stamped EXCEPT !.fills = SortedInsert(@, k)]
      ELSE stamped

\* the joystick sets the effect's trailStrength
StrengthInputs == {0, 1, 500}

Joystick(strength) ==
  /\ trailStrength' = strength
  /\ trailStrength' # trailStrength
  /\ UNCHANGED <<pix, fticks, frun>>
  /\ UNCHANGED <<maskVars, plVars, obsVars, notFade>>

\* the frame times drawn: one and two 60 Hz frames, a quarter, a half and
\* the whole of the auto-clear time
DeltaInputs == {167, 334, 8750, 17500, 35000}

\* AsciiEffect.draw: the glyphs of the frame (marked: one covers the pixel),
\* setDirectionalFade, fadeDirectional(_lastDeltaMs)
DrawFrame(deltaMs, marked) ==
  LET strength == setDirectionalFade(trailStrength)
      idle     == strength <= 1 /\ ~marked
  IN  /\ fticks < MaxFrames
      /\ fticks' = fticks + 1
      /\ pix' = fadeDirectional(pix, deltaMs, strength, marked)
      /\ frun' = IF idle
                 THEN [start |-> IF frun.ds = <<>> THEN pix ELSE frun.start,
                       ds |-> Append(frun.ds, deltaMs)]
                 ELSE NoRun
      /\ UNCHANGED trailStrength
      /\ UNCHANGED <<maskVars, plVars, obsVars, notFade>>

NextFade ==
  \/ \E strength \in StrengthInputs : Joystick(strength)
  \/ \E deltaMs \in DeltaInputs : \E marked \in BOOLEAN : DrawFrame(deltaMs, marked)

SpecFade == Init /\ [][NextFade]_vars

(***************************************************************************)
(* SpecSpring: the spring return of a HoverPoint (videohover) and of a     *)
(* mosaic panel (VideoMosaicPanelsEffect) with no external force, along x. *)
(* Positions are in thousandths of a pixel, velocities in thousandths of a *)
(* pixel per second, times in milliseconds; products are truncated to the  *)
(* unit.                                                                   *)
(***************************************************************************)
\* a velocity in px/s times a dt in ms is a length in thousandths of a pixel
\* (dtSec = dt / 1000)
Px == 1000

returnK == 9
damping100 == 88
SPRING_K == 24
DAMPING == 6
vmax == 2200
\* Math.max(p.width, p.height) * 0.75 on the canvas of the run
omax == (Max(Canvas.w, Canvas.h) * 3) \div 4

\* a * b / c truncated toward zero, for b >= 0 and c > 0
MulDiv(a, b, c) ==
  LET m == IF a < 0 THEN -a ELSE a
      q == (m \div c) * b + ((m % c) * b) \div c
  IN  IF a < 0 THEN -q ELSE q

Clamp(lo, x, hi) == Max(lo, Min(hi, x))

\* VideoHoverSilhouetteEffect.update with the mouse away, then
\* HoverPoint.step: dt is clamped to [0.001, 0.033] s
HoverStep(u, v, dtMs) ==
  LET dt == Clamp(1, dtMs, 33)
      ax == (0 - u) * returnK
      v1 == MulDiv(v + MulDiv(ax, dt, 1000), damping100, 100)
  IN  [x |-> u + MulDiv(v1, dt, 1000), vx |-> v1]

\* VideoMosaicPanelsEffect.update with the stick centred, one panel:
\* dt = Math.max(0.001, dtMs) has no upper clamp
PanelStep(o, v, dtMs) ==
  LET dt == Max(1, dtMs)
      fx == (0 - SPRING_K) * o - DAMPING * v
      v1 == v + MulDiv(fx, dt, 1000)
      o1 == o + MulDiv(v1, dt, 1000)
  IN  [ox |-> Clamp(0 - omax * Px, o1, omax * Px), vx |-> Clamp(0 - vmax * Px, v1, vmax * Px)]

\* the frame intervals p.draw passes on (now - lastMs): 60 Hz, 30 Hz, and a
\* slow 4 frames per second
DtInputs == {17, 33, 250}

\* the scenario's start: both entities 50 px right of home, at rest
Displace(dtMs) ==
  /\ sdt = 0
  /\ sdt' = dtMs
  /\ hx' = 50 * Px /\ hvx' = 0
  /\ ox' = 50 * Px /\ ovx' = 0
  /\ UNCHANGED <<maskVars, plVars, obsVars, notSpring>>

\* p.draw: update of the effect with dt = now - lastMs
SpringTick ==
  /\ sdt # 0
  /\ LET h == HoverStep(hx, hvx, sdt)
         q == PanelStep(ox, ovx, sdt)
     IN  hx' = h.x /\ hvx' = h.vx /\ ox' = q.ox /\ ovx' = q.vx
  /\ UNCHANGED sdt
  /\ UNCHANGED <<maskVars, plVars, obsVars, notSpring>>

NextSpring ==
  \/ \E dtMs \in DtInputs : Displace(dtMs)
  \/ SpringTick

SpecSpring == Init /\ [][NextSpring]_vars

\* the draw loop keeps running
SpecSpringLive == SpecSpring /\ WF_vars(SpringTick)

(***************************************************************************)
(* SpecPack: VideoMosaicPanelsEffect._packNow on a small canvas.  The grid *)
(* has PackCols x PackRows cells of PackCell pixels; the mask is an RGBA   *)
(* buffer of the canvas size.                                              *)
(***************************************************************************)
PackCols == 4
PackRows == 3
PackCell == 2

PackW == PackCols * PackCell
PackH == PackRows * PackCell

tileSizes == <<1, 2, 3>>

\* [3,2,1].filter(sz => this.tileSizes.includes(sz))
trySizes == SelectSeq(<<3, 2, 1>>, LAMBDA sz : \E i \in DOMAIN tileSizes : tileSizes[i] = sz)

_resetOcc == [y \in 1 .. PackRows |-> [x \in 1 .. PackCols |-> 0]]

_place(g, c, r, w, h) ==
  [y \in DOMAIN g |-> [x \in DOMAIN g[y] |->
     IF (y - 1) \in r .. (r + h - 1) /\ (x - 1) \in c .. (c + w - 1) THEN 1 ELSE g[y][x]]]

_panelRect(c, r, w, h) ==
  [x |-> c * PackCell, y |-> r * PackCell, pw |-> w * PackCell, ph |-> h * PackCell]

\* (c + s * 0.5) * grid, in half pixels
Centre(c, s) == Coord(0, (2 * c + s) * PackCell)

\* the test of one size at a cell: _canPlace, then isInside at the centre
Fits(g, md, c, r, s) ==
  /\ _canPlace(g, PackCols, PackRows, c, r, s, s)
  /\ isInside(md, PackW, PackH, Centre(c, s), Centre(r, s))

\* a variant of FirstFit that keeps the last size that fits
FirstFit_last(g, md, c, r, sizes) ==
  LET ok == {i \in DOMAIN sizes : Fits(g, md, c, r, sizes[i])}
  IN  IF ok = {} THEN 0 ELSE sizes[CHOOSE i \in ok : \A j \in ok : j <= i]

\* for (let s of sizes) { ...; placed = true; break; }: the first size of
\* the list that fits, 0 when none does
FirstFit(g, md, c, r, sizes) ==
  LET ok == {i \in DOMAIN sizes : Fits(g, md, c, r, sizes[i])}
  IN  IF ok = {} THEN 0 ELSE sizes[CHOOSE i \in ok : \A j \in ok : i <= j]

Panel(g, c, r, s) == [c |-> c, r |-> r, w |-> s, h |-> s, rect |-> _panelRect(c, r, s, s),
                      occBefore |-> g]

\* the body of the two loops for the cell number n (row-major); picks[k] is
\* what the k-th _choiceWeighted call of the pack returns
RECURSIVE PackFrom(_, _, _, _)
PackFrom(S, md, picks, n) ==
  IF n >= PackCols * PackRows THEN S
  ELSE LET r == n \div PackCols
           c == n % PackCols
       IN  IF S.occ[r + 1][c + 1] # 0 THEN PackFrom(S, md, picks, n + 1)
           ELSE LET s == FirstFit(S.occ, md, c, r, trySizes)
                IN  IF s # 0
                    THEN PackFrom([S EXCEPT !.panels = Append(@, Panel(S.occ, c, r, s)),
                                            !.occ = _place(S.occ, c, r, s, s)],
                                  md, picks, n + 1)
                    ELSE LET q  == picks[(S.fallbacks % Len(picks)) + 1]
                             S1 == [S EXCEPT !.fallbacks = @ + 1]
                         IN  IF Fits(S.occ, md, c, r, q)
                             THEN PackFrom([S1 EXCEPT !.panels = Append(@, Panel(S.occ, c, r, q)),
                                                      !.occ = _place(S.occ, c, r, q, q)],
                                           md, picks, n + 1)
                             ELSE PackFrom(S1, md, picks, n + 1)

_packNow(md, picks) ==
  IF md = NullBuf THEN NoPack
  ELSE LET S == PackFrom([occ |-> _resetOcc, panels |-> <<>>, fallbacks |-> 0],
                         md, picks, 0)
       IN  [panels |-> S.panels, fallbacks |-> S.fallbacks]

\* a mask of the canvas size: the pixels of the rectangle are fg, the
\* others bg
RectMask(x0, x1, y0, y1, fg, bg) ==
  BufferOf([k \in 0 .. (PackW * PackH - 1) |->
             IF (k % PackW) \in x0 .. x1 /\ (k \div PackW) \in y0 .. y1 THEN fg ELSE bg],
           PackW * PackH)

\* a black silhouette that reaches from the top left corner on a transparent
\* frame, or from the bottom right corner on a white frame
PackMasks ==
  { RectMask(0, x1, 0, y1, <<0, 0, 0, 255>>, <<0, 0, 0, 7>>) :
      x1 \in 0 .. (PackW - 1), y1 \in 0 .. (PackH - 1) } \cup
  { RectMask(x0, PackW - 1, y0, PackH - 1, <<0, 0, 0, 255>>, <<255, 255, 255, 255>>) :
      x0 \in 0 .. (PackW - 1), y0 \in 0 .. (PackH - 1) }

\* the masks of later frames
RepackMasks ==
  { RectMask(0, PackW - 1, 0, PackH - 1, <<0, 0, 0, 255>>, <<0, 0, 0, 7>>),
    RectMask(PackCell, PackW - 1, 1, PackH - 1, <<0, 0, 0, 255>>, <<255, 255, 255, 255>>) }

PickInputs == {<<1, 2>>, <<3, 1>>}

\* _packNow while the mask is still null
PackNull ==
  /\ pkMask' = NullBuf
  /\ pkOut' = Called("null", _packNow(NullBuf, <<1>>))
  /\ UNCHANGED <<maskVars, plVars, obsVars, notPack>>

\* update() with a mask and no panels yet: the first pack
FirstPack ==
  /\ pkOut.panels = <<>>
  /\ \E m \in PackMasks : \E picks \in PickInputs :
       /\ pkMask' = m
       /\ pkOut' = Called("first", _packNow(m, picks))
  /\ UNCHANGED <<maskVars, plVars, obsVars, notPack>>

\* update() REPACK_PERIOD_MS after the last pack: the panels are packed
\* again on the mask of that frame
Repack ==
  /\ pkOut.panels # <<>>
  /\ \E m \in RepackMasks : \E picks \in PickInputs :
       /\ pkMask' = m
       /\ pkOut' = Called("repack", _packNow(m, picks))
  /\ UNCHANGED <<maskVars, plVars, obsVars, notPack>>

NextPack == PackNull \/ FirstPack \/ Repack

SpecPack == Init /\ [][NextPack]_vars

(***************************************************************************)
(* Properties of the mask helpers (SpecMask)                               *)
(***************************************************************************)
Asked == out.asked
Luma255 == F64FromInt(OUTSIDE_LUMA)

\* the point asked about, as real numbers, lies outside [0,w) x [0,h)
QueryOutside ==
  \/ CoordLess(query.x, 0) \/ CoordLess(query.y, 0)
  \/ CoordGeq(query.x, mW) \/ CoordGeq(query.y, mH)

\* the point asked about has integer coordinates inside the buffer
QueryOnPixel ==
  /\ query.x.k = 0 /\ query.y.k = 0
  /\ query.x.h % 2 = 0 /\ query.y.h % 2 = 0
  /\ ~QueryOutside

\* the pixel <<r, g, b, a>> of the buffer at an integer position
PixelAt(col, row) ==
  LET i == (row * mW + col) * 4
  IN  <<mbuf[i], mbuf[i + 1], mbuf[i + 2], mbuf[i + 3]>>

QueriedPixel == PixelAt(query.x.h \div 2, query.y.h \div 2)

\* C1 as stated: with a null mask every inside-test, the poetry effect's
\* included, answers false
C1_AllHelpersFalseOnNull ==
  (Asked /\ mbuf = NullBuf) =>
    (~out.sil /\ ~out.inside /\ out.br = Luma255 /\ ~out.pSil)

\* C1 amended: with a null mask VideoPlaylist.isSilhouetteAt, the module-level
\* brightnessAt / isInside and sketch.js isSilhouetteAt answer 255 / false for
\* every point, while PoetrySilhouetteEffect.isSilhouetteAt answers true for
\* every point (its brightnessAt still answers 255)
C1_NullMask ==
  (Asked /\ mbuf = NullBuf) =>
    /\ ~out.sil /\ ~out.inside /\ ~out.sketch
    /\ out.br = Luma255 /\ out.pBr = Luma255
    /\ out.pSil

\* a point is asked about while the mask is null
C1_Witness == Asked /\ mbuf = NullBuf /\ ~out.sil /\ out.pSil

\* C2: for every point outside [0,w) x [0,h), fractional ones included,
\* brightnessAt is exactly 255, the inside-tests are false and no buffer
\* element is read
C2_OutsideIs255 ==
  (Asked /\ mbuf # NullBuf /\ QueryOutside) =>
    /\ out.br = Luma255 /\ ~out.inside /\ ~out.sil
    /\ out.reads = {} /\ out.silReads = {}

\* C3: on an in-bounds pixel with alpha >= 8 the inside-test is true exactly
\* when the luma 0.2126 R + 0.7152 G + 0.0722 B is below the threshold, so a
\* pixel whose luma equals the threshold is outside
C3_StrictThreshold ==
  (Asked /\ mbuf # NullBuf /\ QueryOnPixel /\ QueriedPixel[4] >= ALPHA_MIN) =>
    LET below == LumaExact10k(QueriedPixel[1], QueriedPixel[2], QueriedPixel[3])
                   < SIL_BRIGHTNESS_THRESHOLD * 10000
    IN  (out.sil <=> below) /\ (out.inside <=> below)

\* every pixel of the buffer has alpha below 8
AllTransparent ==
  \A c \in 0 .. (mW * mH - 1) : mbuf[4 * c + 3] < ALPHA_MIN

\* C4: a pixel with alpha below 8 is never inside, whatever its colour, and
\* brightnessAt answers 255 for it; on a buffer whose pixels all have alpha
\* below 8 every inside-test is false at every point
C4_LowAlphaOutside ==
  (Asked /\ mbuf # NullBuf) =>
    /\ (QueryOnPixel /\ QueriedPixel[4] < ALPHA_MIN) =>
         (~out.sil /\ ~out.sketch /\ ~out.inside /\ out.br = Luma255 /\ ~out.pSil)
    /\ AllTransparent =>
         (~out.sil /\ ~out.sketch /\ ~out.inside /\ out.br = Luma255 /\ ~out.pSil)

\* a black pixel with alpha 7, on an all-transparent buffer, is asked about
C4_Witness ==
  /\ Asked /\ mbuf # NullBuf /\ AllTransparent /\ QueryOnPixel
  /\ QueriedPixel = <<0, 0, 0, 7>> /\ ~out.sil /\ ~out.sketch

(***************************************************************************)
(* Properties of source switching (Spec)                                   *)
(***************************************************************************)
\* the calls that failed in the last step
Failed == {k \in DOMAIN ev.calls : ev.calls[k].outcome # "ok"}
\* the calls that succeeded in the last step
Succeeded == {k \in DOMAIN ev.calls : ev.calls[k].outcome = "ok"}

\* the custom blob URL / camera stream a snapshot refers to is still usable
CustomLive(snap) ==
  /\ snap.custom[1] # 0 => blobs[snap.custom[1]] = "live"
  /\ snap.custom[2] # 0 => streams[snap.custom[2]] = "live"

CustomReleased(snap) ==
  /\ snap.custom[1] # 0 => blobs[snap.custom[1]] = "revoked"
  /\ snap.custom[2] # 0 => streams[snap.custom[2]] = "stopped"

C6_ConsistentAfterFailure ==
  \A k \in Failed :
    ev.op # "useVideoFile" =>
      /\ ev.calls[k].outcome # "throw"
      /\ \/ vidEl = NoEl /\ ~loaded /\ maskData = NoMask
         \/ /\ mode = "playlist" /\ vidEl # NoEl /\ InVideoEls(vidEl)
            /\ els[vidEl].media[1] = "demo"

C10_CyclicAdvance ==
  /\ ev.op = "ended" /\ ev.advanced =>
       /\ activeIdx = (ev.idx0 + 1) % Len(videoEls)
       /\ vidEl = videoEls[activeIdx + 1]
  /\ Len(visits) = Len(videoEls) + 1 =>
       /\ visits[Len(visits)] = visits[1]
       /\ {visits[k] : k \in 1 .. Len(videoEls)} = 0 .. (Len(videoEls) - 1)

\* the three-clip playlist has gone once round, starting from a clip other
\* than the first
C10_Witness ==
  /\ ev.op = "ended" /\ ev.advanced
  /\ Len(videoEls) = 3 /\ Len(visits) = 4 /\ visits[1] # 0

(***************************************************************************)
(* Properties of the sampling throttle (SpecThrottle)                      *)
(***************************************************************************)
\* the calls of umHist that redrew
Redrawn == {i \in DOMAIN umHist : umHist[i].redraw}
AllPre == \A i \in DOMAIN umHist : umHist[i].pre

\* C7: while the playlist is loaded, holds a mask and keeps its source, any
\* UPDATE_PERIOD consecutive updateMask calls contain exactly UPDATE_ACTIVE
\* that redraw, the other one returns the stored buffer, and no two calls in
\* a row skip the redraw.
C7_TwoOfThree ==
  /\ Len(umHist) = UPDATE_PERIOD /\ AllPre => Cardinality(Redrawn) = UPDATE_ACTIVE
  /\ \A i \in DOMAIN umHist : umHist[i].pre /\ ~umHist[i].redraw => umHist[i].held
  /\ \A i \in 1 .. (Len(umHist) - 1) :
       umHist[i].pre /\ umHist[i + 1].pre => umHist[i].redraw \/ umHist[i + 1].redraw

\* three calls in a row on a loaded playlist with a mask, one of them a skip
C7_Witness ==
  /\ Len(umHist) = UPDATE_PERIOD /\ AllPre
  /\ \E i \in DOMAIN umHist : ~umHist[i].redraw /\ umHist[i].ret # NoMask

\* the last two calls had the same target size and no new frame between them
SamePair ==
  /\ Len(umHist) >= 2
  /\ umHist[Len(umHist) - 1].dim = umHist[Len(umHist)].dim
  /\ ~umHist[Len(umHist) - 1].frameAfter

\* C8 as stated: two calls with the same target size and no new frame or
\* source change between them return equal buffers, whichever phase the
\* first call falls on.
C8_SameBufferAnyPhase ==
  SamePair => umHist[Len(umHist) - 1].ret = umHist[Len(umHist)].ret

\* C8, as the code behaves: the two buffers are equal when both calls fall in
\* the same cycle of the throttle counter (the second call is not on phase
\* 0); a call on the skip phase returns the stored buffer, which may be older
\* than the frame the next call redraws.
C8_SameBufferSameCycle ==
  SamePair /\ umHist[Len(umHist) - 1].phase < umHist[Len(umHist)].phase
    => umHist[Len(umHist) - 1].ret = umHist[Len(umHist)].ret

\* a redraw and the skip after it, same size, no new frame, a buffer returned
C8_Witness ==
  /\ SamePair
  /\ umHist[Len(umHist)].phase = UPDATE_ACTIVE /\ ~umHist[Len(umHist)].redraw
  /\ umHist[Len(umHist)].ret # NoMask

(***************************************************************************)
(* Release of custom media (Spec)                                          *)
(***************************************************************************)
\* a call in flight has attached the blob URL / camera stream and awaits it
BlobInFlight(i) ==
  \E k \in DOMAIN pending :
    pending[k].kind = "file" /\ pending[k].stage = "load" /\ pending[k].res = i
StreamInFlight(i) ==
  \E k \in DOMAIN pending :
    pending[k].kind = "webcam" /\ pending[k].stage = "load" /\ pending[k].res = i

\* the no-source state: no active element, nothing loaded, no video element
\* attached or playing
NoSourceState ==
  /\ vidEl = NoEl /\ ~loaded
  /\ \A e \in DOMAIN els : ~els[e].attached /\ ~Playing(els[e])

\* dispose() has emptied videoEls and nothing has been attached since
Disposed == inited /\ list # <<>> /\ videoEls = <<>> /\ NoSourceState

\* a media event or the completion of getUserMedia, with the listeners and
\* continuations it runs
MediaEvent ==
  \/ \E e \in DOMAIN els : LoadedData(e) \/ ErrorEvent(e)
  \/ \E i \in DOMAIN pending : GumResolve(i) \/ GumReject(i)

\* C26: a disposed playlist stays in the no-source state under every later
\* media event or async completion: none sets loaded, sets vidEl, attaches
\* or starts a video element, or creates one
C26_DisposedStaysEmpty ==
  [][Disposed /\ MediaEvent => NoSourceState' /\ Len(els') = Len(els)]_vars

\* a custom source (file or webcam) has been loaded and is the active one
CustomActive ==
  /\ mode \in {"file", "webcam"} /\ loaded /\ vidEl # NoEl
  /\ (customURL # 0 \/ customStream # 0)
  /\ Len(videoEls) > 0

\* the demo state: playlist mode, no custom URL or stream, and the active
\* element is videoEls[activeIdx], carries its demo sources and does not loop
DemoState ==
  /\ mode = "playlist" /\ customURL = 0 /\ customStream = 0
  /\ activeIdx + 1 \in DOMAIN videoEls /\ vidEl = videoEls[activeIdx + 1]
  /\ vidEl # NoEl
  /\ els[vidEl].media[1] = "demo" /\ ~els[vidEl].loop

\* C28: clearCustom after a successful useVideoFile or useWebcam restores
\* the demo state
C28_ClearCustomRestoresDemo == [][CustomActive /\ ClearCustom => DemoState']_vars

\* C11: every blob URL created and every camera stream acquired is released
\* once it is not the active source: the only unreleased custom resources
\* are the one referenced as active and those a call in flight is still
\* loading, whatever calls succeeded or failed before.
C11_OnlyActiveUnreleased ==
  /\ \A i \in DOMAIN blobs :
       blobs[i] = "live" => customURL = i \/ BlobInFlight(i)
  /\ \A i \in DOMAIN streams :
       streams[i] = "live" => customStream = i \/ StreamInFlight(i)

(***************************************************************************)
(* Properties of the app lifecycle (SpecApp)                               *)
(***************************************************************************)
\* the hidden video elements of W that are still in the document or playing
HeldVideos(W) == {e \in DOMAIN W.els : W.els[e].attached \/ ~W.els[e].paused}

\* the effects that a later boot has replaced
Outgoing == {i \in DOMAIN effects : i < Len(effects)}

\* C12: once the next effect has started, every hidden video element that an
\* outgoing effect's own VideoPlaylist created is paused and out of the
\* document (so the attached hidden videos cannot pile up over switches)
C12_OutgoingVideosReleased ==
  \A i \in Outgoing : effects[i].own => HeldVideos(effects[i].W) = {}

\* C30: at most one auto-rotate interval timer is alive, and it is the one
\* autoRotateTimer records; once userInteracted is true it stays true and no
\* rotateToNext call is made any more, whatever is booted afterwards
C30_OneTimerNoRotation ==
  [][/\ intervals' <= 1
     /\ autoRotateTimer' = (intervals' = 1)
     /\ userInteracted => userInteracted' /\ rotations' = rotations]_vars

\* the rotation has switched once, the user then chose an effect, and the
\* boot of that effect (with its startAutoRotate call) has run
C30_Witness ==
  /\ userInteracted /\ rotations = 1 /\ switches = 2
  /\ timers = <<>> /\ Len(sketches) = 3
  /\ intervals = 0

\* C13: every p5 instance other than the one p5Instance refers to has been
\* removed, so at most one render loop is live
C13_OneLiveSketch ==
  \A i \in DOMAIN sketches : sketches[i] = "live" => i = p5Instance

(***************************************************************************)
(* Properties of the drip grid (SpecGrid)                                  *)
(***************************************************************************)
\* the in-grid cells of a segment
SegCells(s) ==
  {<<x, y>> : x \in s.c .. (s.c + s.w - 1), y \in RowSpan(occ, s.r, s.h)}

\* the in-grid cells of the segments of drip d that it has not freed
ClaimedCells(d) ==
  UNION {SegCells(d.segs[k]) : k \in {n \in DOMAIN d.segs : ~d.segs[n].freed}}

\* C14: every placeRect call made for a drip (construction, step, floor
\* placement) targets only cells canPlaceRect reports free, so the in-grid
\* cells of the unfreed segments of distinct live drips are pairwise disjoint
C14_PlacedOnFreeCells ==
  /\ lastPlace.free
  /\ \A i, j \in DOMAIN drips :
       i # j => ClaimedCells(drips[i]) \cap ClaimedCells(drips[j]) = {}

\* C15: a cell that holds an id belongs to a drip the effect still holds:
\* every span a segment claimed has been released by the time the drip is
\* spliced out on isDone()
C15_NoCellOfRemovedDrip ==
  \A y \in DOMAIN occ : \A x \in DOMAIN occ[y] :
    occ[y][x] # 0 => \E i \in DOMAIN drips : drips[i].id = occ[y][x]

Live(id) == \E i \in DOMAIN drips : drips[i].id = id

\* C27: every spawned drip is eventually finished and removed from the
\* live list; no drip retries its placement forever
C27_EveryDripRemoved == \A id \in 1 .. MaxDrips : Live(id) ~> ~Live(id)

(***************************************************************************)
(* Properties of the rectangle helpers (SpecRect)                          *)
(***************************************************************************)
RectCells(q) == {<<x, y>> : x \in q.c .. (q.c + q.w - 1), y \in q.r .. (q.r + q.h - 1)}
CellFree(g, x, y) == InGrid(g, x, y) /\ g[y + 1][x + 1] = 0

\* the rectangle lies wholly inside the grid and all its cells are unclaimed
InsideAndFree(g, q) == \A p \in RectCells(q) : CellFree(g, p[1], p[2])

\* the rectangle is inside the grid from left to right and those of its cells
\* that lie in rows 0 .. rows - 1 are unclaimed
ColumnsInsideRowsClamped(g, q) ==
  \A p \in RectCells(q) :
    /\ p[1] \in 0 .. (RectCols - 1)
    /\ p[2] \in 0 .. (RectRows - 1) => g[p[2] + 1][p[1] + 1] = 0

\* C16 as stated: each of canPlaceRect, _canPlace and fits answers true
\* exactly when the rectangle is wholly inside the grid and unclaimed
C16_TrueIffInsideAndFree ==
  rq.op = "ask" =>
    /\ rq.can = InsideAndFree(board, rq.q)
    /\ rq.strict = InsideAndFree(board, rq.q)
    /\ (rq.fits = "true") = InsideAndFree(board, rq.q)

\* C16: canPlaceRect rejects a rectangle that sticks out to the left or right
\* but ignores its rows above and below the grid; _canPlace answers true
\* exactly for a rectangle inside the grid with all cells unclaimed, and so
\* does fits for the non-negative col and row its caller passes
C16_CanPlace ==
  rq.op = "ask" =>
    /\ rq.can = ColumnsInsideRowsClamped(board, rq.q)
    /\ rq.strict = InsideAndFree(board, rq.q)
    /\ rq.q.c >= 0 /\ rq.q.r >= 0 => (rq.fits = "true") = InsideAndFree(board, rq.q)

\* a rectangle that reaches above the grid over unclaimed cells, while
\* another cell of the grid is claimed: canPlaceRect accepts it, _canPlace
\* does not
C16_Witness ==
  /\ rq.op = "ask" /\ rq.q.r < 0 /\ rq.q.r + rq.q.h > 0
  /\ \E y \in DOMAIN board : \E x \in DOMAIN board[y] : board[y][x] # 0
  /\ rq.can /\ ~rq.strict

\* C17: freeRectById(id, c, r, w, h) sets to null exactly the cells of the
\* rectangle that id owns and changes no other cell
C17_FreesOnlyOwnCells ==
  rq.op = "free" =>
    \A y \in DOMAIN board : \A x \in DOMAIN board[y] :
      board[y][x] = IF <<x - 1, y - 1>> \in RectCells(rq.q) /\ rq.pre[y][x] = rq.id
                    THEN 0 ELSE rq.pre[y][x]

\* a free over a rectangle that held a cell of the caller (now null) and a
\* cell of the other owner (still claimed)
C17_Witness ==
  /\ rq.op = "free"
  /\ \E p \in RectCells(rq.q) : InGrid(board, p[1], p[2]) /\ rq.pre[p[2] + 1][p[1] + 1] = rq.id
                                  /\ board[p[2] + 1][p[1] + 1] = 0
  /\ \E p \in RectCells(rq.q) : InGrid(board, p[1], p[2])
                                  /\ board[p[2] + 1][p[1] + 1] \notin {0, rq.id}

(***************************************************************************)
(* Properties of the bento grid (SpecTiles)                                *)
(***************************************************************************)
\* (tx, ty) shares an edge with the rectangle of the tile
EdgeAdjacent(t, tx, ty) ==
  /\ <<tx, ty>> \notin TileCells(t)
  /\ \E p \in TileCells(t) :
       (p[1] = tx /\ (p[2] = ty - 1 \/ p[2] = ty + 1)) \/
       (p[2] = ty /\ (p[1] = tx - 1 \/ p[1] = tx + 1))

ChangedCells(g, h) == {<<x - 1, y - 1>> : x \in 1 .. TileCols, y \in 1 .. TileRows} \cap
                      {p \in (0 .. (TileCols - 1)) \X (0 .. (TileRows - 1)) :
                         g[p[2] + 1][p[1] + 1] # h[p[2] + 1][p[1] + 1]}

\* C18: extendTileInto returns true only for a target inside the grid,
\* unclaimed and edge-adjacent to the tile, and then the tile's rectangle
\* grows by exactly that cell and exactly that occupancy cell changes;
\* otherwise it returns false and changes neither the grid nor the tile
C18_ExtendsByOneCell ==
  \A k \in tcalls :
    IF k.ret
    THEN /\ k.tx \in 0 .. (TileCols - 1) /\ k.ty \in 0 .. (TileRows - 1)
         /\ k.occPre[k.ty + 1][k.tx + 1] = 0
         /\ EdgeAdjacent(k.pre, k.tx, k.ty)
         /\ TileCells(k.post) = TileCells(k.pre) \cup {<<k.tx, k.ty>>}
         /\ ChangedCells(k.occPre, k.occPost) = {<<k.tx, k.ty>>}
    ELSE k.post = k.pre /\ k.occPost = k.occPre

GridCells == (0 .. (TileCols - 1)) \X (0 .. (TileRows - 1))

\* C25: after any sequence of hovers the rectangles recorded on the tiles
\* are pairwise disjoint and inside the grid, and the occupancy map built
\* from them gives a cell to a tile exactly when the cell lies in the
\* tile's rectangle
C25_TilesPartition ==
  /\ \A i \in DOMAIN tiles : TileCells(tiles[i]) \subseteq GridCells
  /\ \A i, j \in DOMAIN tiles : i # j => TileCells(tiles[i]) \cap TileCells(tiles[j]) = {}
  /\ \A p \in GridCells : \A i \in DOMAIN tiles :
       (buildOccMap(tiles)[p[2] + 1][p[1] + 1] = i) <=> (p \in TileCells(tiles[i]))

(***************************************************************************)
(* Properties of the finite events (SpecEnvelope)                          *)
(***************************************************************************)
RippleEnd(rp) == rp.t0 + GROW_TIME + HOLD_TIME + DECAY_TIME
CutEnd(ct) == ct.t0 + CUT_GROW + CUT_HOLD + CUT_DECAY

\* the envelope values the last frame computed, each with its event: every
\* event of the lists before the pruning, and in draw every event left
RippleQueries ==
  {<<fr.preR[i], fr.valR[i]>> : i \in DOMAIN fr.preR} \cup
  {<<ripples[i], fr.drawR[i]>> : i \in DOMAIN fr.drawR}
CutQueries ==
  {<<fr.preC[i], fr.valC[i]>> : i \in DOMAIN fr.preC} \cup
  {<<cuts[i], fr.drawC[i]>> : i \in DOMAIN fr.drawC}

\* a / b <= c / d for a, c >= 0 and b, d > 0, by whole parts and remainders
RECURSIVE FracLeq(_, _, _, _)
FracLeq(a, b, c, d) ==
  IF a \div b # c \div d THEN a \div b < c \div d
  ELSE IF a % b = 0 THEN TRUE
  ELSE IF c % d = 0 THEN FALSE
  ELSE FracLeq(d, c % d, b, a % b)

FracEq(a, b, c, d) == FracLeq(a, b, c, d) /\ FracLeq(c, d, a, b)

\* the value v of an envelope of peak P asked at fr.at for an event born at
\* t0 with the given durations; low / 100 of the peak is its least value,
\* taken at t0
EnvelopeShape(t0, P, v, grow, hold, decay, low) ==
  /\ v.d > 0
  /\ fr.at >= t0 /\ fr.at < t0 + grow + hold + decay => v.n >= 0
  /\ fr.at = t0 => FracEq(v.n, v.d, low * P, 100)
  /\ fr.at = t0 + grow => FracEq(v.n, v.d, P, 1)
  /\ fr.at = t0 + grow + hold => FracEq(v.n, v.d, P, 1)
  /\ fr.at >= t0 /\ fr.at < t0 + grow + hold + decay =>
       FracLeq(low * P, 100, v.n, v.d) /\ FracLeq(v.n, v.d, P, 1)
  /\ fr.at >= t0 + grow + hold + decay => v = Frac(-1, 1)

KeptOrEvicted(seq, res, n, cap) ==
  \E k \in 0 .. Len(seq) :
    /\ k > 0 => Len(res) = cap
    /\ \E m \in 0 .. Min(n, Len(res)) :
         res = SubSeq(seq, k + 1, Len(seq)) \o SubSeq(res, Len(res) - m + 1, Len(res))

\* C20: after an update at a time inside [t0, end) the event is still in its
\* list unless the cap shifted it out; after an update at or after the end it
\* is gone; no event whose envelope was non-negative was pruned
C20_PrunedAtEnd ==
  fr.done =>
    /\ \A i \in DOMAIN ripples : fr.at < RippleEnd(ripples[i])
    /\ \A i \in DOMAIN cuts : fr.at < CutEnd(cuts[i])
    /\ KeptOrEvicted(SelectSeq(fr.preR, LAMBDA rp : fr.at < RippleEnd(rp)), ripples, fr.nR, MAX_RIPPLES)
    /\ KeptOrEvicted(SelectSeq(fr.preC, LAMBDA ct : fr.at < CutEnd(ct)), cuts, fr.nC, MAX_CUTS)
    /\ \A i \in DOMAIN fr.preR : fr.valR[i].n >= 0 <=> fr.at < RippleEnd(fr.preR[i])
    /\ \A i \in DOMAIN fr.preC : fr.valC[i].n >= 0 <=> fr.at < CutEnd(fr.preC[i])

\* an update that pruned a ripple at the very end of its decay and kept a cut
\* that was inside its lifetime
C20_Witness ==
  /\ fr.done
  /\ \E i \in DOMAIN fr.preR : fr.at = RippleEnd(fr.preR[i])
  /\ \E i \in DOMAIN fr.preC : fr.at < CutEnd(fr.preC[i]) /\ fr.at > fr.preC[i].t0
  /\ cuts # <<>>

(***************************************************************************)
(* Properties of the capped lists (SpecCaps)                               *)
(***************************************************************************)
Perms(fs) == SelectSeq(fs, LAMBDA f : f.perm)
Temps(fs) == SelectSeq(fs, LAMBDA f : ~f.perm)

IsSuffix(a, b) == Len(a) <= Len(b) /\ a = SubSeq(b, Len(b) - Len(a) + 1, Len(b))

\* the ripples (or cuts) after a step: the unfinished ones in their order
\* without some of the oldest, then new ones born at this instant
OldestShifted(seq, res, alive(_), cap) ==
  /\ Len(res) <= cap
  /\ \E m \in 0 .. Len(res) :
       /\ \A i \in (Len(res) - m + 1) .. Len(res) : res[i].t0 = now'
       /\ \/ SubSeq(res, 1, Len(res) - m) = seq
          \/ SubSeq(res, 1, Len(res) - m) = SelectSeq(seq, alive)
          \/ Len(res) = cap /\ IsSuffix(SubSeq(res, 1, Len(res) - m), SelectSeq(seq, alive))
          \/ Len(res) = cap /\ IsSuffix(SubSeq(res, 1, Len(res) - m), seq)

\* the floaters after a handler: within the cap after every spawn; the
\* permanent ones all kept; the temporary ones all kept, or the unexpired
\* ones kept but for some of the oldest, and none of those missing unless
\* the list was over the cap
FloatersCapped ==
  /\ Len(floaters') <= FLOATER_MAX
  /\ pobs'.done =>
       LET live == SelectSeq(Temps(pobs'.pre), LAMBDA f : ~isExpired(f, pobs'.at))
           left == SubSeq(Temps(floaters'), 1, Len(Temps(floaters')) - Min(pobs'.n, Len(Temps(floaters'))))
       IN  /\ pobs'.peak <= FLOATER_MAX
           /\ Perms(floaters') = Perms(pobs'.pre)
           /\ left = Temps(pobs'.pre) \/ IsSuffix(left, live)
           /\ Len(SelectSeq(left, LAMBDA f : ~isExpired(f, pobs'.at))) < Len(live) =>
                Len(pobs'.pre) + pobs'.n > FLOATER_MAX

\* C21: after every spawn ripples.length <= MAX_RIPPLES, cuts.length <=
\* MAX_CUTS and floaters.length <= FLOATER_MAX, and what is removed to make
\* room is the oldest entry (for floaters the oldest temporary one; the
\* permanent floaters are never removed)
C21_CapsEvictOldest ==
  [][/\ OldestShifted(ripples, ripples', LAMBDA rp : now' < RippleEnd(rp), MAX_RIPPLES)
     /\ OldestShifted(cuts, cuts', LAMBDA ct : now' < CutEnd(ct), MAX_CUTS)
     /\ Len(pripples') <= PART_MAX_RIPPLES
     /\ FloatersCapped]_vars

\* the floaters are at their cap, live temporary floaters were dropped for
\* it, and every permanent floater is still there
C21_Witness ==
  /\ pobs.done
  /\ Len(floaters) = FLOATER_MAX
  /\ Len(Perms(floaters)) = floaterCount
  /\ Len(pobs.pre) + pobs.n > FLOATER_MAX
  /\ \E i \in DOMAIN pobs.pre : ~pobs.pre[i].perm /\ ~isExpired(pobs.pre[i], pobs.at)

(***************************************************************************)
(* Properties of the trail compositor (SpecFade)                           *)
(***************************************************************************)
RECURSIVE Sum(_)
Sum(seq) == IF seq = <<>> THEN 0 ELSE Head(seq) + Sum(Tail(seq))

\* the product of (_autoClearMs - k) over at most two fills
FillNum(fills) ==
  IF fills = <<>> THEN 1
  ELSE IF Len(fills) = 1 THEN _autoClearMs - fills[1]
  ELSE (_autoClearMs - fills[1]) * (_autoClearMs - fills[2])
FillDen(fills) ==
  IF fills = <<>> THEN 1 ELSE IF Len(fills) = 1 THEN _autoClearMs ELSE _autoClearMs * _autoClearMs

\* two pixels that began as the same mark have the same fraction of it left
SameFraction(p, q) ==
  /\ p.has = q.has
  /\ p.has => /\ p.e = q.e
              /\ FracEq(FillNum(p.fills), FillDen(p.fills), FillNum(q.fills), FillDen(q.fills))

\* C22: with zero strength, what is left of the trail after two consecutive
\* ticks of d1 and d2 equals what is left after one tick of d1 + d2, every
\* fade of the tick counted, the idle background rectangle included
C22_TwoTicksEqualOne ==
  trailStrength = 0 /\ Len(frun.ds) = 2 /\ frun.start.has /\ Len(frun.start.fills) = 0 =>
    SameFraction(pix, fadeDirectional(frun.start, frun.ds[1] + frun.ds[2], 0, FALSE))

Within1px(x) == x <= Px /\ x >= 0 - Px

\* C24: from offset (50, 0) at rest and with no external force, a
\* spring-return entity comes within 1 px of its home after finitely many
\* ticks and stays within 1 px on every later tick
C24_SettlesWithin1px == <>[](Within1px(hx) /\ Within1px(ox))

(***************************************************************************)
(* Properties of the mosaic packing (SpecPack)                             *)
(***************************************************************************)
PanelCells(q) == {<<x, y>> : x \in q.c .. (q.c + q.w - 1), y \in q.r .. (q.r + q.h - 1)}

\* the mask pixel under the point (px2 / 2, py2 / 2) is opaque and darker than
\* the silhouette threshold
DarkAt(md, px2, py2) ==
  LET i == ((py2 \div 2) * PackW + (px2 \div 2)) * 4
  IN  /\ px2 \div 2 < PackW /\ py2 \div 2 < PackH
      /\ md[i + 3] >= ALPHA_MIN
      /\ LumaExact10k(md[i], md[i + 1], md[i + 2])
           < SIL_BRIGHTNESS_THRESHOLD * 10000

\* size s fits at the panel's cell: inside the grid, on cells free before
\* the panel was placed, with its centre in the silhouette
SizeFits(q, s) ==
  /\ q.c + s <= PackCols /\ q.r + s <= PackRows
  /\ \A x \in q.c .. (q.c + s - 1), y \in q.r .. (q.r + s - 1) : q.occBefore[y + 1][x + 1] = 0
  /\ DarkAt(pkMask, (2 * q.c + s) * PackCell, (2 * q.r + s) * PackCell)

\* C29: the panels of one _packNow call are squares of side 1 to 3 inside
\* the grid, pairwise disjoint, each with its centre inside the silhouette
\* and of the largest of the sizes 3, 2, 1 that fits at its cell; there are
\* none when the mask is null
C29_PanelsPacked ==
  LET ps == pkOut.panels
  IN  /\ pkMask = NullBuf => ps = <<>>
      /\ \A i \in DOMAIN ps :
           /\ ps[i].w = ps[i].h /\ ps[i].w \in 1 .. 3
           /\ ps[i].c >= 0 /\ ps[i].r >= 0
           /\ ps[i].c + ps[i].w <= PackCols /\ ps[i].r + ps[i].h <= PackRows
           /\ SizeFits(ps[i], ps[i].w)
           /\ \A s \in 1 .. 3 : SizeFits(ps[i], s) => s <= ps[i].w
      /\ \A i, j \in DOMAIN ps : i # j => PanelCells(ps[i]) \cap PanelCells(ps[j]) = {}

\* a pack with a 2 x 2 panel at a cell where the grid and the free cells
\* allowed 3 x 3 but the centre of that square was outside the silhouette,
\* with a 1 x 1 panel, and with a cell where no size fitted
C29_Witness ==
  LET ps == pkOut.panels
  IN  /\ \E i \in DOMAIN ps :
           /\ ps[i].w = 2
           /\ _canPlace(ps[i].occBefore, PackCols, PackRows, ps[i].c, ps[i].r, 3, 3)
      /\ \E i \in DOMAIN ps : ps[i].w = 1
      /\ pkOut.fallbacks > 0

====
